---- MODULE Spec2Model ----
(***************************************************************************)
(* Subnetio address-planning core: VLSM allocator (spillover, contiguous,  *)
(* tiered), persistent allocation over a project (allocateProject), the    *)
(* planning allocator and the what-if planner (runWhatIfPlan), and the     *)
(* segment analyzer (analyzeSegments).                                     *)
(*                                                                         *)
(* Addresses are scaled: an IPv4 address is a V4Bits-bit unsigned integer  *)
(* (uint32 in the source, arithmetic wraps modulo 2^V4Bits), an IPv6       *)
(* address a V6Bits-bit integer handled with unbounded arithmetic          *)
(* (math/big in the source).                                               *)
(***************************************************************************)
EXTENDS Integers, Sequences, FiniteSets, TLC

\* ------------------------------------------------------------------ bounds
\* Width of the scaled IPv4 address (stands for 32).
V4Bits == 5
\* Width of the scaled IPv6 address (stands for 128).
V6Bits == 5
\* Number of segment rows in the store.
MaxSegs == 2

\* ------------------------------------------------------- address arithmetic
Pow2(n) == IF n <= 0 THEN 1 ELSE 2 ^ n

\* netip.Addr / addrBitLen: the width of a family.
addrBitLen(fam) == IF fam = "ipv4" THEN V4Bits ELSE V6Bits

\* A netip.Prefix value: family, address (possibly with host bits), length.
Pfx(fam, addr, bits) == [fam |-> fam, addr |-> addr, bits |-> bits]

\* prefixSize: 1 << (bits - length), 1 when the length is not below the width.
prefixSize(p) ==
    IF addrBitLen(p.fam) - p.bits <= 0 THEN 1 ELSE Pow2(addrBitLen(p.fam) - p.bits)

\* netip.Prefix.Masked: zero the host bits.
Masked(p) == [p EXCEPT !.addr = (p.addr \div prefixSize(p)) * prefixSize(p)]

\* netip.Prefix.Contains(addr): same family and equal leading bits.
Contains(p, fam, a) ==
    /\ p.fam = fam
    /\ (a \div prefixSize(p)) = (p.addr \div prefixSize(p))

\* prefixLastAddr: start of the masked prefix + size - 1.
prefixLastAddr(p) == Masked(p).addr + prefixSize(p) - 1

\* prefixWithin: first and last address of p lie in pool.
prefixWithin(pool, p) ==
    /\ Contains(pool, p.fam, p.addr)
    /\ Contains(pool, p.fam, prefixLastAddr(p))

\* prefixesOverlap: a.Contains(b.Addr()) || b.Contains(a.Addr()).
prefixesOverlap(a, b) ==
    Contains(a, b.fam, b.addr) \/ Contains(b, a.fam, a.addr)

\* overlapsAny: p overlaps some member of the used list.
overlapsAny(p, used) ==
    \E i \in 1..Len(used) : prefixesOverlap(used[i], p)

\* alignUp: the smallest multiple of step that is >= n.
alignUp(n, step) ==
    IF step = 0 THEN n
    ELSE IF n % step # 0 THEN ((n \div step) + 1) * step ELSE (n \div step) * step

\* ------------------------------------------------------------- CIDR text
\* A sql.NullString holding CIDR text.  valid = FALSE is NULL.  canon tells
\* whether the text is the one netip.Prefix.String prints (IPv6 text may be
\* written in upper case or with expanded zeros and still parse).
NullCIDR == [valid |-> FALSE, fam |-> "ipv4", addr |-> 0, bits |-> 0, canon |-> TRUE]
Text(p, canon) ==
    [valid |-> TRUE, fam |-> p.fam, addr |-> p.addr, bits |-> p.bits, canon |-> canon]

\* A text that is no prefix.
BadText == [valid |-> TRUE, fam |-> "none", addr |-> 0, bits |-> 0, canon |-> FALSE]

\* netip.ParsePrefix succeeds on the text of an IPv4 or IPv6 prefix.
ParseOK(t) == t.valid /\ t.fam \in {"ipv4", "ipv6"}
\* netip.ParsePrefix: the prefix a text denotes (the spelling is lost).
ParsePrefix(t) == Pfx(t.fam, t.addr, t.bits)
\* netip.Prefix.String wrapped in a valid sql.NullString: canonical text.
PrefixString(p) == Text(p, TRUE)
\* cidrString: "" for NULL, else the stored text.
cidrString(t) == IF t.valid THEN t ELSE NullCIDR

\* The characters of Prefix.String, as code points, for string comparison:
\* the address in decimal (hexadecimal for IPv6), '/', the length in decimal.
RECURSIVE Digits(_, _)
Digits(n, base) ==
    LET d == n % base
        c == IF d < 10 THEN 48 + d ELSE 87 + d
    IN IF n < base THEN <<c>> ELSE Append(Digits(n \div base, base), c)
PrefixChars(p) ==
    Digits(p.addr, IF p.fam = "ipv4" THEN 10 ELSE 16) \o <<47>> \o Digits(p.bits, 10)

\* Go's < on strings: lexicographic on the code points.
RECURSIVE StrLess(_, _)
StrLess(a, b) ==
    IF Len(b) = 0 THEN FALSE
    ELSE IF Len(a) = 0 THEN TRUE
    ELSE IF Head(a) # Head(b) THEN Head(a) < Head(b)
    ELSE StrLess(Tail(a), Tail(b))

\* ------------------------------------------------------------- utilities
\* sort.SliceStable under a strict weak order: an element goes after every
\* element that is less, and after the equal elements that preceded it.
SortStable(s, Less(_, _)) ==
    LET n == Len(s)
        rank(i) == Cardinality({j \in 1..n :
                       Less(s[j], s[i]) \/ (~Less(s[i], s[j]) /\ j < i)})
    IN [r \in 1..n |-> s[CHOOSE i \in 1..n : rank(i) = r - 1]]

\* A Go map as a function; m with key k set to v.
MapPut(m, k, v) == [x \in (DOMAIN m) \cup {k} |-> IF x = k THEN v ELSE m[x]]
EmptyMap == [x \in {} |-> 0]
MapMerge(m, n) == [x \in (DOMAIN m) \cup (DOMAIN n) |-> IF x \in DOMAIN n THEN n[x] ELSE m[x]]

\* ------------------------------------------------------------ data model
\* statusLevel.Label of statusOK, statusWarning, statusConflict.
LevelOK == "OK"
LevelWarning == "Warning"
LevelConflict == "Conflict"

\* A Conflict: Kind, Level, and what its Detail names (segment ids, family).
Conflict(kind, level, seg, other, fam) ==
    [kind |-> kind, level |-> level, seg |-> seg, other |-> other, fam |-> fam]

PoolStrategySpillover == "spillover"
PoolStrategyContig == "contiguous"
PoolStrategyTiered == "tiered"

\* normalizePoolFamily: "ipv6" stays, anything else is "ipv4".
normalizePoolFamily(raw) == IF raw = "ipv6" THEN "ipv6" ELSE "ipv4"

\* poolTierValue / segmentTierValue: the trimmed lower-case tier, 0 for "".
\* Tiers are numbered in their lexicographic order ("" < "gold" < "silver").
poolTierValue(p) == p.tier
segmentTierValue(s) == s.tier

\* hostsToPrefixIPv4: the longest prefix whose block holds hosts + 3
\* addresses, 1 when none does.
RECURSIVE hostsToPrefixFrom(_, _)
hostsToPrefixFrom(need, p) ==
    IF p < 1 THEN 1
    ELSE IF Pow2(V4Bits - p) >= need THEN p
    ELSE hostsToPrefixFrom(need, p - 1)
\* The derivation with two addresses set aside instead of three.
hostsToPrefixTwo(hosts) == hostsToPrefixFrom(hosts + 2, V4Bits)
hostsToPrefixIPv4(hosts) == hostsToPrefixFrom(hosts + 3, V4Bits)

\* desiredPrefix: the explicit prefix wins, then the host count, else 0.
\* A NULL column is 0 (the handlers store only prefix >= 1 and hosts > 0).
desiredPrefix(s) ==
    IF s.prefix # 0 THEN s.prefix
    ELSE IF s.hosts # 0 THEN hostsToPrefixIPv4(s.hosts)
    ELSE 0

\* desiredPrefixByFamily: prefix_v6 for IPv6, desiredPrefix for IPv4.
desiredPrefixByFamily(s, family) ==
    IF family = "ipv6" THEN s.prefixV6 ELSE desiredPrefix(s)

\* segmentCIDRByFamily: the cidr_v6 or the cidr column.
segmentCIDRByFamily(s, family) == IF family = "ipv6" THEN s.cidrV6 ELSE s.cidr

\* poolItemsForFamily: the pools of the family whose prefix is of the family,
\* stably sorted by (priority, tier, Prefix.String()).
PoolItemLess(a, b) ==
    IF a.pool.priority # b.pool.priority THEN a.pool.priority < b.pool.priority
    ELSE IF a.tier # b.tier THEN a.tier < b.tier
    ELSE StrLess(PrefixChars(a.prefix), PrefixChars(b.prefix))
PoolItemKeep(p, family) ==
    /\ normalizePoolFamily(p.family) = family
    /\ p.cidr.fam = family
poolItemsForFamily(pools, family) ==
    LET kept == SelectSeq(pools, LAMBDA p : PoolItemKeep(p, family))
        items == [i \in 1..Len(kept) |->
                     [pool |-> kept[i], prefix |-> kept[i].cidr, tier |-> poolTierValue(kept[i])]]
    IN SortStable(items, PoolItemLess)

\* ------------------------------------------------- allocation in one pool
NoPrefix == Pfx("ipv4", 0, 0)
AllocFail == [ok |-> FALSE, hang |-> FALSE, p |-> NoPrefix]
AllocHang == [ok |-> FALSE, hang |-> TRUE, p |-> NoPrefix]
AllocOK(p) == [ok |-> TRUE, hang |-> FALSE, p |-> p]

\* uint32 arithmetic of allocateInPoolIPv4.
U32(n) == n % Pow2(V4Bits)

\* The for loop of allocateInPoolIPv4: cur + step <= end is evaluated in
\* uint32, so the sum wraps.  cur walks start + k*step modulo 2^V4Bits; when
\* it comes back to start without leaving the loop, the loop never ends.
RECURSIVE V4Scan(_, _, _, _, _, _, _)
V4Scan(pool, want, used, start, end, step, cur) ==
    IF ~(U32(cur + step) <= end) THEN AllocFail
    ELSE LET cand == Masked(Pfx("ipv4", cur, want))
         IN IF Contains(pool, "ipv4", cand.addr) /\ ~overlapsAny(cand, used)
            THEN AllocOK(cand)
            ELSE IF U32(cur + step) = start THEN AllocHang
            ELSE V4Scan(pool, want, used, start, end, step, U32(cur + step))

\* allocateInPoolIPv4.
allocateInPoolIPv4(pool, want, used) ==
    IF want < 1 \/ want > V4Bits THEN AllocFail
    ELSE LET step == U32(Pow2(V4Bits - want))
             start == Masked(pool).addr
             end == U32(start + U32(Pow2(V4Bits - pool.bits)))
         IN V4Scan(pool, want, used, start, end, step, start)

\* mergeBigRanges: coalesce sorted ranges that overlap or touch.
RECURSIVE mergeBigFrom(_, _, _)
mergeBigFrom(sorted, i, out) ==
    IF i > Len(sorted) THEN out
    ELSE LET last == out[Len(out)]
         IN IF sorted[i].start <= last.end + 1
            THEN mergeBigFrom(sorted, i + 1,
                    IF sorted[i].end > last.end
                    THEN [out EXCEPT ![Len(out)].end = sorted[i].end]
                    ELSE out)
            ELSE mergeBigFrom(sorted, i + 1, Append(out, sorted[i]))
mergeBigRanges(ranges) ==
    IF Len(ranges) = 0 THEN <<>> ELSE mergeBigFrom(ranges, 2, <<ranges[1]>>)

\* buildUsedRangesBig: the used prefixes as integer ranges clipped to the
\* pool, sorted by start and merged.
BigRangeOf(p) == [start |-> Masked(p).addr, end |-> Masked(p).addr + prefixSize(p) - 1]
buildUsedRangesBig(pool, used) ==
    LET poolStart == pool.addr
        poolEnd == poolStart + prefixSize(pool) - 1
        hit == SelectSeq(used, LAMBDA p :
                   ~(BigRangeOf(p).end < poolStart \/ BigRangeOf(p).start > poolEnd))
        clip == [i \in 1..Len(hit) |->
                   [start |-> IF BigRangeOf(hit[i]).start < poolStart THEN poolStart
                              ELSE BigRangeOf(hit[i]).start,
                    end |-> IF BigRangeOf(hit[i]).end > poolEnd THEN poolEnd
                            ELSE BigRangeOf(hit[i]).end]]
    IN IF Len(used) = 0 THEN <<>>
       ELSE mergeBigRanges(SortStable(clip, LAMBDA a, b : a.start < b.start))

\* The sweep of allocateInPoolIPv6 over the merged used ranges.
RECURSIVE SkipUsed(_, _, _)
SkipUsed(usedRanges, idx, cur) ==
    IF idx <= Len(usedRanges) /\ usedRanges[idx].end < cur
    THEN SkipUsed(usedRanges, idx + 1, cur)
    ELSE idx
RECURSIVE V6Sweep(_, _, _, _, _, _)
V6Sweep(want, poolEnd, usedRanges, step, cur, idx0) ==
    LET candEnd == cur + step - 1
        idx == SkipUsed(usedRanges, idx0, cur)
    IN IF candEnd > poolEnd THEN AllocFail
       ELSE IF idx > Len(usedRanges) \/ candEnd < usedRanges[idx].start
            THEN IF cur >= Pow2(V6Bits) THEN AllocFail
                 ELSE AllocOK(Masked(Pfx("ipv6", cur, want)))
            ELSE V6Sweep(want, poolEnd, usedRanges, step,
                         alignUp(usedRanges[idx].end + 1, step), idx)

\* allocateInPoolIPv6.
allocateInPoolIPv6(pool0, want, used) ==
    IF pool0.fam # "ipv6" THEN AllocFail
    ELSE LET pool == Masked(pool0)
         IN IF want < pool.bits THEN AllocFail
            ELSE LET step == Pow2(V6Bits - want)
                     poolStart == pool.addr
                     poolEnd == poolStart + prefixSize(pool) - 1
                 IN V6Sweep(want, poolEnd, buildUsedRangesBig(pool, used), step,
                            alignUp(poolStart, step), 1)

\* allocateInPool: by the family of the pool.
allocateInPool(pool, want, used) ==
    IF pool.fam = "ipv4" THEN allocateInPoolIPv4(pool, want, used)
    ELSE allocateInPoolIPv6(pool, want, used)

\* ----------------------------------------------------------- strategies
\* poolTierMatches (contiguous under the tiered strategy).
poolTierMatches(pool, tier, fallback) ==
    IF tier # 0 THEN (IF pool.tier = tier THEN TRUE ELSE fallback)
    ELSE IF pool.tier = 0 THEN TRUE ELSE fallback

\* A filter that keeps every pool.
filterNothing(items, tier, fallback) == items

\* filterPoolsByTier: the pools of the segment's tier; all pools when there
\* is none and fallback is set.
filterPoolsByTier(items, tier, fallback) ==
    LET same == SelectSeq(items, LAMBDA p : p.tier = tier)
    IN IF Len(same) = 0 /\ fallback THEN items ELSE same

\* The used list had the placement not been recorded.
UsedKept(used, p) == used

\* The used list after a placement: used = append(used, p).
UsedAfter(used, p) == Append(used, p)

\* The pool loop of allocateSpillover: the first pool that has room.  r is
\* the result of allocateInPool on pool k.
RECURSIVE FirstFit(_, _, _, _)
FirstFitTry(poolList, k, want, used, r) ==
    IF r.ok \/ r.hang THEN r ELSE FirstFit(poolList, k + 1, want, used)
FirstFit(poolList, k, want, used) ==
    IF k > Len(poolList) THEN AllocFail
    ELSE FirstFitTry(poolList, k, want, used,
                     allocateInPool(poolList[k].prefix, want, used))

AllocateFailConflict(s, family) == Conflict("ALLOCATE_FAIL", LevelWarning, s.id, 0, family)

\* The state of an allocator run: the map, the conflicts, the used list,
\* whether the run never returns (hang) and whether the loop was left.
AllocStart(used) ==
    [alloc |-> EmptyMap, conflicts |-> <<>>, used |-> used, hang |-> FALSE, stop |-> FALSE]

\* An iteration that leaves the loop at a failure in planning mode too.
SpilloverPlaceStop(acc, s, family, strict, want, r) ==
    IF want = 0 THEN acc
    ELSE IF r.hang THEN [acc EXCEPT !.hang = TRUE, !.stop = TRUE]
    ELSE IF ~r.ok
         THEN [acc EXCEPT !.conflicts = Append(@, AllocateFailConflict(s, family)),
                          !.stop = TRUE]
         ELSE [acc EXCEPT !.used = UsedAfter(@, r.p),
                          !.alloc = MapPut(@, s.id, r.p)]

\* One iteration of the segment loop of allocateSpillover, r being what the
\* pool loop found for the segment.
SpilloverPlace(acc, s, family, strict, want, r) ==
    IF want = 0 THEN acc
    ELSE IF r.hang THEN [acc EXCEPT !.hang = TRUE, !.stop = TRUE]
    ELSE IF ~r.ok
         THEN [acc EXCEPT !.conflicts = Append(@, AllocateFailConflict(s, family)),
                          !.stop = strict]
         ELSE [acc EXCEPT !.used = UsedAfter(@, r.p),
                          !.alloc = MapPut(@, s.id, r.p)]
SpilloverStep(items, s, acc, rules, family, strict) ==
    SpilloverPlace(acc, s, family, strict, desiredPrefixByFamily(s, family),
        FirstFit(IF rules.PoolStrategy = PoolStrategyTiered
                 THEN filterPoolsByTier(items, segmentTierValue(s), rules.PoolTierFallback)
                 ELSE items,
                 1, desiredPrefixByFamily(s, family), acc.used))

\* allocateSpillover: segments in order, each into its first fitting pool.
RECURSIVE SpilloverFrom(_, _, _, _, _, _, _)
SpilloverFrom(items, segments, i, acc, rules, family, strict) ==
    IF i > Len(segments) \/ acc.stop THEN acc
    ELSE SpilloverFrom(items, segments, i + 1,
                       SpilloverStep(items, segments[i], acc, rules, family, strict),
                       rules, family, strict)
allocateSpillover(items, segments, used, rules, family, strict) ==
    SpilloverFrom(items, segments, 1, AllocStart(used), rules, family, strict)

\* One iteration of the inner loop of allocateContiguous: segment s against
\* the pool; acc holds alloc, used, hang and next (the nextPending list).
ContigPlace(acc, s, skip, want, r) ==
    IF want = 0 THEN acc
    ELSE IF skip THEN [acc EXCEPT !.next = Append(@, s)]
    ELSE IF r.hang THEN [acc EXCEPT !.hang = TRUE]
    ELSE IF r.ok
         THEN [acc EXCEPT !.used = UsedAfter(@, r.p),
                          !.alloc = MapPut(@, s.id, r.p)]
         ELSE [acc EXCEPT !.next = Append(@, s)]
ContigStep(pool, s, acc, rules, family) ==
    ContigPlace(acc, s,
        /\ rules.PoolStrategy = PoolStrategyTiered
        /\ ~poolTierMatches(pool, segmentTierValue(s), rules.PoolTierFallback),
        desiredPrefixByFamily(s, family),
        allocateInPool(pool.prefix, desiredPrefixByFamily(s, family), acc.used))
RECURSIVE ContigPool(_, _, _, _, _, _)
ContigPool(pool, pending, j, acc, rules, family) ==
    IF j > Len(pending) \/ acc.hang THEN acc
    ELSE ContigPool(pool, pending, j + 1,
                    ContigStep(pool, pending[j], acc, rules, family), rules, family)

\* allocateContiguous: pools in order, each absorbing the pending segments
\* that fit; what is still pending after the last pool fails.
RECURSIVE ContigFrom(_, _, _, _, _, _)
ContigNext(items, k, r, rules, family) ==
    ContigFrom(items, k + 1, r.next, r, rules, family)
ContigFrom(items, k, pending, acc, rules, family) ==
    IF k > Len(items) \/ Len(pending) = 0 \/ acc.hang
    THEN [acc EXCEPT !.next = pending]
    ELSE ContigNext(items, k,
             ContigPool(items[k], pending, 1, [acc EXCEPT !.next = <<>>], rules, family),
             rules, family)
ContigResult(r, strict, family) ==
    [alloc |-> r.alloc,
     conflicts |-> IF strict /\ Len(r.next) > 0
                   THEN <<AllocateFailConflict(r.next[1], family)>>
                   ELSE [i \in 1..Len(r.next) |-> AllocateFailConflict(r.next[i], family)],
     used |-> r.used, hang |-> r.hang, stop |-> FALSE]
allocateContiguous(items, segments, used, rules, family, strict) ==
    ContigResult(ContigFrom(items, 1, segments,
                     [alloc |-> EmptyMap, used |-> used, hang |-> FALSE, next |-> <<>>],
                     rules, family),
                 strict, family)

\* The switch on rules.PoolStrategy of allocateFamily / planAllocateFamily.
RunStrategy(items, candidates, used, rules, family, strict) ==
    IF rules.PoolStrategy = PoolStrategyContig
    THEN allocateContiguous(items, candidates, used, rules, family, strict)
    ELSE allocateSpillover(items, candidates, used, rules, family, strict)

\* ------------------------------------------------------------- the store
\* Strings that are only compared (site names, VRF labels, segment names)
\* are represented by their rank in lexicographic order.

\* reservedRangesBySite / buildReservedIndex: the parsable entries of a
\* site's reserved_ranges of one family, in order.
ReservedOf(site, family) ==
    LET ok == SelectSeq(site.reserved, LAMBDA t : ParseOK(t) /\ t.fam = family)
    IN [i \in 1..Len(ok) |-> ParsePrefix(ok[i])]

\* buildReservedIndex: the reserved ranges of a site, per family.
buildReservedIndex(siteRows, siteID, family) ==
    LET row == SelectSeq(siteRows, LAMBDA r : r.id = siteID)
    IN IF Len(row) = 0 THEN <<>> ELSE ReservedOf(row[1], family)

\* listSites: the sites of the project, ORDER BY name.
listSites(siteRows) == SortStable(siteRows, LAMBDA a, b : a.name < b.name)

\* poolsBySite: the pools of a site, ORDER BY priority, cidr.
poolsBySite(poolRows, siteID) ==
    SortStable(SelectSeq(poolRows, LAMBDA p : p.site = siteID),
               LAMBDA a, b : IF a.priority # b.priority THEN a.priority < b.priority
                             ELSE StrLess(PrefixChars(a.cidr), PrefixChars(b.cidr)))

\* segmentsBySite: the segments of a site, ORDER BY id.
segmentsBySite(segRows, siteID) ==
    SortStable(SelectSeq(segRows, LAMBDA s : s.site = siteID),
               LAMBDA a, b : a.id < b.id)

\* The clear had its WHERE clause not asked for locked=0.
clearCIDRsOfSite(rows, siteID, family) ==
    [i \in 1..Len(rows) |->
        IF rows[i].site = siteID
        THEN (IF family = "ipv6" THEN [rows[i] EXCEPT !.cidrV6 = NullCIDR]
              ELSE [rows[i] EXCEPT !.cidr = NullCIDR])
        ELSE rows[i]]

\* clearCIDRsByFamily: UPDATE segments SET cidr=NULL WHERE site_id=? AND locked=0.
clearCIDRsByFamily(rows, siteID, family) ==
    [i \in 1..Len(rows) |->
        IF rows[i].site = siteID /\ ~rows[i].locked
        THEN (IF family = "ipv6" THEN [rows[i] EXCEPT !.cidrV6 = NullCIDR]
              ELSE [rows[i] EXCEPT !.cidr = NullCIDR])
        ELSE rows[i]]

\* updateSegmentCIDRByFamily: UPDATE segments SET cidr=? WHERE id=?.
updateSegmentCIDRByFamily(rows, segmentID, family, text) ==
    [i \in 1..Len(rows) |->
        IF rows[i].id = segmentID
        THEN (IF family = "ipv6" THEN [rows[i] EXCEPT !.cidrV6 = text]
              ELSE [rows[i] EXCEPT !.cidr = text])
        ELSE rows[i]]

\* The update loop had it stopped after its first row.
UpdateFirst(rows, alloc, ids, family) ==
    IF ids = {} THEN rows
    ELSE LET id == CHOOSE x \in ids : TRUE
         IN updateSegmentCIDRByFamily(rows, id, family, PrefixString(alloc[id]))

\* The loop "for id, p := range allocations" over the ids in ids.
RECURSIVE UpdateAll(_, _, _, _)
UpdateAll(rows, alloc, ids, family) ==
    IF ids = {} THEN rows
    ELSE LET id == CHOOSE x \in ids : TRUE
         IN UpdateAll(updateSegmentCIDRByFamily(rows, id, family, PrefixString(alloc[id])),
                      alloc, ids \ {id}, family)

\* ------------------------------------------------- persistent allocation
\* The used list of allocateFamily / planAllocateFamily: the parsable CIDRs
\* of the locked segments, then the reserved ranges.
LockedUsed(segs, family) ==
    LET l == SelectSeq(segs, LAMBDA s :
                 s.locked /\ ParseOK(segmentCIDRByFamily(s, family)))
    IN [i \in 1..Len(l) |-> ParsePrefix(segmentCIDRByFamily(l[i], family))]
\* The used list had the locked CIDRs been left out of it.
ReservedUsed(segs, reserved, family) == reserved
\* The used list had the CIDR of every segment been put in it.
EveryUsed(segs, reserved, family) ==
    LET held == SelectSeq(segs, LAMBDA s : ParseOK(segmentCIDRByFamily(s, family)))
    IN [i \in 1..Len(held) |-> ParsePrefix(segmentCIDRByFamily(held[i], family))]
       \o reserved
InitialUsed(segs, reserved, family) == LockedUsed(segs, family) \o reserved

\* The candidates had the host count not been taken as a size request.
CandidatesByPrefix(segs, family) ==
    SelectSeq(segs, LAMBDA s :
        ~s.locked /\ (IF family = "ipv6" THEN s.prefixV6 ELSE s.prefix) # 0)

\* The candidates: unlocked segments with a size request, stably sorted by
\* desired prefix length ascending.
Candidates(segs, family) ==
    SortStable(SelectSeq(segs, LAMBDA s :
                   ~s.locked /\ desiredPrefixByFamily(s, family) # 0),
               LAMBDA a, b : desiredPrefixByFamily(a, family) < desiredPrefixByFamily(b, family))

\* A fault of the store: the Exec (or Commit) that fails in one call of
\* allocateProject.  at is "none", "clear", "update" or "commit"; done is the
\* set of rows the update loop wrote before the failing update.
NoFault == [at |-> "none", site |-> 0, fam |-> "ipv4", done |-> {}]

\* What allocateFamily does with the allocator's result r on the
\* transaction's rows tx: an error on a conflict, else the clear and the
\* updates, one of which the fault may fail.
quietFamily(tx) ==
    [tx |-> tx, err |-> FALSE, hang |-> FALSE, alloc |-> EmptyMap, ran |-> FALSE]
FamilyWrite(tx, siteID, family, fault, r) ==
    IF r.hang THEN [quietFamily(tx) EXCEPT !.hang = TRUE, !.ran = TRUE]
    ELSE IF Len(r.conflicts) > 0
         THEN [quietFamily(tx) EXCEPT !.err = TRUE, !.alloc = r.alloc, !.ran = TRUE]
    ELSE IF fault.site = siteID /\ fault.fam = family /\ fault.at = "clear"
         THEN [quietFamily(tx) EXCEPT !.err = TRUE, !.alloc = r.alloc, !.ran = TRUE]
    ELSE IF /\ fault.site = siteID /\ fault.fam = family /\ fault.at = "update"
            /\ fault.done \subseteq DOMAIN r.alloc
            /\ fault.done # DOMAIN r.alloc
         THEN [tx |-> UpdateAll(clearCIDRsByFamily(tx, siteID, family), r.alloc,
                                fault.done, family),
               err |-> TRUE, hang |-> FALSE, alloc |-> r.alloc, ran |-> TRUE]
    ELSE [tx |-> UpdateAll(clearCIDRsByFamily(tx, siteID, family), r.alloc,
                           DOMAIN r.alloc, family),
          err |-> FALSE, hang |-> FALSE, alloc |-> r.alloc, ran |-> TRUE]

\* allocateFamily on the transaction's rows tx.  Returns the rows after,
\* whether it returned an error, whether it never returned, and the
\* allocator's map.  Without pools of the family or without candidates it
\* returns at once.
FamilyRun(tx, siteID, family, fault, rules, items, candidates, used) ==
    IF Len(items) = 0 THEN quietFamily(tx)
    ELSE IF Len(candidates) = 0 THEN quietFamily(tx)
    ELSE FamilyWrite(tx, siteID, family, fault,
                     RunStrategy(items, candidates, used, rules, family, TRUE))
allocateFamily(tx, siteID, segs, pools, reserved, rules, family, fault) ==
    FamilyRun(tx, siteID, family, fault, rules, poolItemsForFamily(pools, family),
              Candidates(segs, family), InitialUsed(segs, reserved, family))

\* A rollback that left the transaction's writes in the store.
KeptWrites(storeRows, txRows) == txRows

\* What a transaction leaves in the store: Commit installs its rows,
\* Rollback (and a failed Commit) leaves the rows of before Begin.
Committed(storeRows, txRows) == txRows
RolledBack(storeRows, txRows) == storeRows

\* One iteration of the site loop of allocateProject on the store rows:
\* Begin, the IPv4 family (v4), the IPv6 family (v6) on its rows, Commit.
noSite(rows) ==
    [rows |-> rows, err |-> FALSE, hang |-> FALSE,
     allocV4 |-> EmptyMap, allocV6 |-> EmptyMap, ranV4 |-> FALSE, ranV6 |-> FALSE]
SiteCommit(rows, siteID, fault, v4, v6) ==
    IF v6.hang THEN [noSite(rows) EXCEPT !.hang = TRUE, !.ranV4 = v4.ran, !.ranV6 = TRUE]
    ELSE IF v6.err
         THEN [noSite(rows) EXCEPT !.rows = RolledBack(rows, v6.tx), !.err = TRUE,
                                   !.allocV4 = v4.alloc, !.allocV6 = v6.alloc,
                                   !.ranV4 = v4.ran, !.ranV6 = TRUE]
    ELSE IF fault.site = siteID /\ fault.at = "commit"
         THEN [noSite(rows) EXCEPT !.rows = RolledBack(rows, v6.tx), !.err = TRUE,
                                   !.allocV4 = v4.alloc, !.allocV6 = v6.alloc,
                                   !.ranV4 = v4.ran, !.ranV6 = v6.ran]
    ELSE [rows |-> Committed(rows, v6.tx), err |-> FALSE, hang |-> FALSE,
          allocV4 |-> v4.alloc, allocV6 |-> v6.alloc, ranV4 |-> v4.ran, ranV6 |-> v6.ran]
SiteV6(rows, site, segs, pools, rules, fault, v4) ==
    IF v4.hang THEN [noSite(rows) EXCEPT !.hang = TRUE, !.ranV4 = TRUE]
    ELSE IF v4.err
         THEN [noSite(rows) EXCEPT !.rows = RolledBack(rows, v4.tx), !.err = TRUE,
                                   !.allocV4 = v4.alloc, !.ranV4 = TRUE]
    ELSE SiteCommit(rows, site.id, fault, v4,
             allocateFamily(v4.tx, site.id, segs, pools, ReservedOf(site, "ipv6"),
                            rules, "ipv6", fault))
SiteV4(rows, site, segs, pools, rules, fault) ==
    IF Len(pools) = 0 THEN noSite(rows)
    ELSE SiteV6(rows, site, segs, pools, rules, fault,
             allocateFamily(rows, site.id, segs, pools, ReservedOf(site, "ipv4"),
                            rules, "ipv4", fault))
AllocateSite(rows, site, poolRows, rules, fault) ==
    SiteV4(rows, site, segmentsBySite(rows, site.id), poolsBySite(poolRows, site.id),
           rules, fault)

\* allocateProject: the sites in listSites order, stopping at the first
\* error.  done is the sequence of the ids of the sites whose iteration ended
\* without error; failed is the id of the site that returned the error (0
\* when none); ranV4 and ranV6 are the sites whose allocator ran.
SiteDone(acc, siteID, r) ==
    [rows |-> r.rows, err |-> r.err, hang |-> r.hang,
     allocV4 |-> MapMerge(acc.allocV4, r.allocV4),
     allocV6 |-> MapMerge(acc.allocV6, r.allocV6),
     done |-> IF r.err \/ r.hang THEN acc.done ELSE Append(acc.done, siteID),
     failed |-> IF r.err THEN siteID ELSE 0,
     ranV4 |-> IF r.ranV4 THEN acc.ranV4 \cup {siteID} ELSE acc.ranV4,
     ranV6 |-> IF r.ranV6 THEN acc.ranV6 \cup {siteID} ELSE acc.ranV6]
RECURSIVE AllocateSites(_, _, _, _, _, _)
AllocateSites(siteList, k, acc, poolRows, rules, fault) ==
    IF k > Len(siteList) \/ acc.err \/ acc.hang THEN acc
    ELSE AllocateSites(siteList, k + 1,
             SiteDone(acc, siteList[k].id,
                      AllocateSite(acc.rows, siteList[k], poolRows, rules, fault)),
             poolRows, rules, fault)
allocateProject(rows, siteRows, poolRows, rules, fault) ==
    AllocateSites(listSites(siteRows), 1,
        [rows |-> rows, err |-> FALSE, hang |-> FALSE, allocV4 |-> EmptyMap,
         allocV6 |-> EmptyMap, done |-> <<>>, failed |-> 0, ranV4 |-> {}, ranV6 |-> {}],
        poolRows, rules, fault)

\* ------------------------------------------------------ planning allocator
\* segmentsNeedFamily: some segment has a request or a CIDR of the family.
segmentsNeedFamily(segs, family) ==
    \E i \in 1..Len(segs) :
        IF family = "ipv6" THEN segs[i].prefixV6 # 0 \/ segs[i].cidrV6.valid
        ELSE segs[i].prefix # 0 \/ segs[i].hosts # 0 \/ segs[i].cidr.valid

\* The plan entries of planAllocateFamily for the locked segments.
RECURSIVE LockedPlan(_, _, _)
LockedPlan(segs, i, family) ==
    IF i > Len(segs) THEN EmptyMap
    ELSE LET rest == LockedPlan(segs, i + 1, family)
             t == segmentCIDRByFamily(segs[i], family)
         IN IF segs[i].locked /\ ParseOK(t) /\ segs[i].id \notin DOMAIN rest
            THEN MapPut(rest, segs[i].id, ParsePrefix(t))
            ELSE rest

\* planAllocateFamily: no pools of the family gives no plan at all (and
\* POOL_MISSING when a segment needs the family); otherwise the locked
\* CIDRs, then the allocator in planning mode (result r) on the candidates.
PlanPre(segs, family) ==
    LET lockedNo == SelectSeq(segs, LAMBDA s :
                        s.locked /\ ~segmentCIDRByFamily(s, family).valid)
        sizeNo == SelectSeq(segs, LAMBDA s :
                        ~s.locked /\ desiredPrefixByFamily(s, family) = 0)
    IN [i \in 1..Len(lockedNo) |->
           Conflict("LOCKED_NO_CIDR", LevelWarning, lockedNo[i].id, 0, family)]
       \o [i \in 1..Len(sizeNo) |->
           Conflict("SIZE_MISSING", LevelWarning, sizeNo[i].id, 0, family)]
PlanWith(segs, family, r) ==
    [plan |-> MapMerge(LockedPlan(segs, 1, family), r.alloc),
     alloc |-> r.alloc, hang |-> r.hang, conflicts |-> PlanPre(segs, family) \o r.conflicts]
PlanRun(segs, reserved, rules, family, items) ==
    IF Len(items) = 0
    THEN [plan |-> EmptyMap, alloc |-> EmptyMap, hang |-> FALSE,
          conflicts |-> IF segmentsNeedFamily(segs, family)
                        THEN <<Conflict("POOL_MISSING", LevelWarning, 0, 0, family)>>
                        ELSE <<>>]
    ELSE PlanWith(segs, family,
             RunStrategy(items, Candidates(segs, family),
                         InitialUsed(segs, reserved, family), rules, family, FALSE))
planAllocateFamily(segs, pools, reserved, rules, family) ==
    PlanRun(segs, reserved, rules, family, poolItemsForFamily(pools, family))

\* planAllocations: group segments and pools by site, plan each site that has
\* segments.  The sites are visited in the iteration order of a Go map,
\* which is the argument siteOrder.
PlanMerge(acc, a4, a6) ==
    [planV4 |-> MapMerge(acc.planV4, a4.plan),
     planV6 |-> MapMerge(acc.planV6, a6.plan),
     allocV4 |-> MapMerge(acc.allocV4, a4.alloc),
     allocV6 |-> MapMerge(acc.allocV6, a6.alloc),
     conflicts |-> acc.conflicts \o a4.conflicts \o a6.conflicts,
     hang |-> acc.hang \/ a4.hang \/ a6.hang]
PlanSite(acc, siteSegs, sitePools, resV4, resV6, rules) ==
    PlanMerge(acc, planAllocateFamily(siteSegs, sitePools, resV4, rules, "ipv4"),
                   planAllocateFamily(siteSegs, sitePools, resV6, rules, "ipv6"))
RECURSIVE PlanSites(_, _, _, _, _, _, _)
PlanSites(siteOrder, k, segs, pools, siteRows, rules, acc) ==
    IF k > Len(siteOrder) THEN acc
    ELSE PlanSites(siteOrder, k + 1, segs, pools, siteRows, rules,
             PlanSite(acc, SelectSeq(segs, LAMBDA s : s.site = siteOrder[k]),
                      SelectSeq(pools, LAMBDA p : p.site = siteOrder[k]),
                      buildReservedIndex(siteRows, siteOrder[k], "ipv4"),
                      buildReservedIndex(siteRows, siteOrder[k], "ipv6"), rules))
planAllocations(segs, pools, siteRows, rules, siteOrder) ==
    PlanSites(siteOrder, 1, segs, pools, siteRows, rules,
        [planV4 |-> EmptyMap, planV6 |-> EmptyMap, allocV4 |-> EmptyMap,
         allocV6 |-> EmptyMap, conflicts |-> <<>>, hang |-> FALSE])

\* applyPlan: a new list; each segment's CIDRs are the plan's, NULL where
\* the plan has no entry.
applyPlan(segs, planV4, planV6) ==
    [i \in 1..Len(segs) |->
        [segs[i] EXCEPT
            !.cidr = IF segs[i].id \in DOMAIN planV4
                     THEN PrefixString(planV4[segs[i].id]) ELSE NullCIDR,
            !.cidrV6 = IF segs[i].id \in DOMAIN planV6
                       THEN PrefixString(planV6[segs[i].id]) ELSE NullCIDR]]

\* ----------------------------------------------------------------- rules
VlanScopeSiteVRF == "site_vrf"
VlanScopeSite == "site"
VlanScopeGlobal == "global"

\* The default oversize threshold, in percent.
DefaultOversizeThreshold == 50

defaultProjectRules ==
    [VLANScope |-> VlanScopeSiteVRF, RequireInPool |-> TRUE,
     AllowReservedOverlap |-> FALSE, OversizeThreshold |-> DefaultOversizeThreshold,
     PoolStrategy |-> PoolStrategySpillover, PoolTierFallback |-> TRUE]

\* vlanKey: itoa(VLAN) alone, after Site + "|", or after Site + "|" + VRF + "|".
\* The key is a string, so the texts behind the ranks matter.  A site name is
\* any non-empty trimmed text, unique among the sites, and so is a VRF label
\* (POST /sites, POST /segments): the sites are named "A" and "A|B", the
\* VRFs "B|C" and "C" (as code points, like the digits of the VLAN).
vlanKey(s, rules) ==
    LET SiteText == IF s.siteName = 1 THEN <<65>> ELSE <<65, 124, 66>>
        VRFText == IF s.vrf = 1 THEN <<66, 124, 67>> ELSE <<67>>
    IN IF rules.VLANScope = VlanScopeGlobal THEN Digits(s.vlan, 10)
       ELSE IF rules.VLANScope = VlanScopeSite
       THEN SiteText \o <<124>> \o Digits(s.vlan, 10)
       ELSE SiteText \o <<124>> \o VRFText \o <<124>> \o Digits(s.vlan, 10)

\* ----------------------------------------------------------- the lists
\* listSegments: ORDER BY si.name, s.vrf, s.vlan, s.name.
listSegments(segRows) ==
    SortStable(segRows, LAMBDA a, b :
        IF a.siteName # b.siteName THEN a.siteName < b.siteName
        ELSE IF a.vrf # b.vrf THEN a.vrf < b.vrf
        ELSE IF a.vlan # b.vlan THEN a.vlan < b.vlan
        ELSE a.name < b.name)

\* listPools: ORDER BY s.name, p.priority, p.family, p.cidr.
listPools(poolRows) ==
    SortStable(poolRows, LAMBDA a, b :
        IF a.siteName # b.siteName THEN a.siteName < b.siteName
        ELSE IF a.priority # b.priority THEN a.priority < b.priority
        ELSE IF a.family # b.family THEN a.family = "ipv4"
        ELSE StrLess(PrefixChars(a.cidr), PrefixChars(b.cidr)))

\* buildPoolIndex: the pool prefixes of a site, per family, in list order.
buildPoolIndex(pools, siteID, family) ==
    LET mine == SelectSeq(pools, LAMBDA p :
                    /\ p.site = siteID
                    /\ IF normalizePoolFamily(p.family) = "ipv6" /\ p.cidr.fam = "ipv6"
                       THEN family = "ipv6"
                       ELSE family = "ipv4" /\ p.cidr.fam = "ipv4")
    IN [i \in 1..Len(mine) |-> mine[i].cidr]

\* prefixInAnyPool: p lies within one of the pools.
prefixInAnyPool(p, pools) == \E i \in 1..Len(pools) : prefixWithin(pools[i], p)

\* --------------------------------------------------------------- analyzer
statusOK == 0
statusWarning == 1
statusConflict == 2
\* A label that ignores the level.
LabelConflict(level) == LevelConflict

\* statusLevel.Label.
Label(level) ==
    IF level = statusWarning THEN LevelWarning
    ELSE IF level = statusConflict THEN LevelConflict
    ELSE LevelOK

\* One call addStatus(statuses, id, level, detail); a detail is its fixed
\* text and the segment name it ends with (0 when it names none).
StatusCallN(id, level, text, n) ==
    [id |-> id, level |-> level, detail |-> [text |-> text, n |-> n]]
StatusCall(id, level, text) == StatusCallN(id, level, text, 0)

\* addStatus folded over a sequence of calls: the status of a segment is the
\* highest level among its calls and their details in call order; a segment
\* with no call has statusOK and no details.
addStatus(calls, id) ==
    LET mine == SelectSeq(calls, LAMBDA c : c.id = id)
        lv == {mine[i].level : i \in 1..Len(mine)} \cup {statusOK}
    IN [level |-> CHOOSE l \in lv : \A m \in lv : m <= l,
        details |-> [i \in 1..Len(mine) |-> mine[i].detail]]

\* The checks of one family's CIDR of a segment s: pool membership, then
\* the first overlapping reserved range.  v6 selects the kinds and details.
CIDRChecks(s, t, pools, reserved, rules, v6) ==
    LET p == ParsePrefix(t)
        inLevel == IF rules.RequireInPool THEN statusConflict ELSE statusWarning
        resLevel == IF ~rules.AllowReservedOverlap THEN statusConflict ELSE statusWarning
        hitRes == \E i \in 1..Len(reserved) : prefixesOverlap(reserved[i], p)
        poolPart ==
            IF Len(pools) = 0
            THEN [calls |-> <<StatusCall(s.id, statusWarning,
                                IF v6 THEN "no v6 pool defined for site"
                                ELSE "no pool defined for site")>>,
                  conflicts |-> <<>>]
            ELSE IF ~prefixInAnyPool(p, pools)
            THEN [calls |-> <<StatusCall(s.id, inLevel,
                                IF v6 THEN "v6 out of pool" ELSE "out of pool")>>,
                  conflicts |-> <<Conflict(IF v6 THEN "OUT_OF_POOL_V6" ELSE "OUT_OF_POOL",
                                           Label(inLevel), s.id, 0,
                                           IF v6 THEN "ipv6" ELSE "ipv4")>>]
            ELSE [calls |-> <<>>, conflicts |-> <<>>]
        resPart ==
            IF hitRes
            THEN [calls |-> <<StatusCall(s.id, resLevel,
                                IF v6 THEN "overlaps v6 reserved range"
                                ELSE "overlaps reserved range")>>,
                  conflicts |-> <<Conflict(IF v6 THEN "RESERVED_OVERLAP_V6"
                                           ELSE "RESERVED_OVERLAP",
                                           Label(resLevel), s.id, 0,
                                           IF v6 THEN "ipv6" ELSE "ipv4")>>]
            ELSE [calls |-> <<>>, conflicts |-> <<>>]
    IN IF ~ParseOK(t)
       THEN [calls |-> <<StatusCall(s.id, statusConflict,
                            IF v6 THEN "invalid CIDR v6" ELSE "invalid CIDR")>>,
             conflicts |-> <<Conflict(IF v6 THEN "CIDR6_PARSE" ELSE "CIDR_PARSE",
                                      LevelConflict, s.id, 0,
                                      IF v6 THEN "ipv6" ELSE "ipv4")>>]
       ELSE [calls |-> poolPart.calls \o resPart.calls,
             conflicts |-> poolPart.conflicts \o resPart.conflicts]

\* The first loop of analyzeSegments, for one segment.
SegmentChecks(s, pools, siteRows, rules) ==
    LET size == IF s.prefix = 0 /\ s.hosts = 0
                THEN <<StatusCall(s.id, statusWarning, "size request missing")>> ELSE <<>>
        v6na == IF s.prefixV6 # 0 /\ ~s.cidrV6.valid
                THEN <<StatusCall(s.id, statusWarning, "v6 not allocated")>> ELSE <<>>
        v4 == IF ~s.cidr.valid
              THEN [calls |-> <<StatusCall(s.id, statusWarning, "not allocated")>>,
                    conflicts |-> <<>>]
              ELSE CIDRChecks(s, s.cidr, buildPoolIndex(pools, s.site, "ipv4"),
                              buildReservedIndex(siteRows, s.site, "ipv4"), rules, FALSE)
        v6 == IF ~s.cidrV6.valid THEN [calls |-> <<>>, conflicts |-> <<>>]
              ELSE CIDRChecks(s, s.cidrV6, buildPoolIndex(pools, s.site, "ipv6"),
                              buildReservedIndex(siteRows, s.site, "ipv6"), rules, TRUE)
    IN [calls |-> size \o v6na \o v4.calls \o v6.calls,
        conflicts |-> v4.conflicts \o v6.conflicts]

\* segByID[id]: the last segment of the list with the id.
segByID(segs, id) ==
    LET hit == SelectSeq(segs, LAMBDA s : s.id = id) IN hit[Len(hit)]

\* A key that drops the VRF: the groups would be the sites.
GroupBySite(s) == <<s.siteName, 1>>

\* The key {s.Site, s.VRF} of the overlap groups.
GroupKey(s) == <<s.siteName, s.vrf>>

\* The index pairs i < j of the two nested loops, in loop order.
RECURSIVE PairsFrom(_, _, _)
PairsFrom(n, i, j) ==
    IF i >= n THEN <<>>
    ELSE IF j > n THEN PairsFrom(n, i + 1, i + 2)
    ELSE <<(<<i, j>>)>> \o PairsFrom(n, i, j + 1)

\* The pairwise overlap check inside one group (ids in list order).
OverlapInGroup(segs, ids, v6) ==
    LET cidrOf(id) == ParsePrefix(IF v6 THEN segByID(segs, id).cidrV6
                                  ELSE segByID(segs, id).cidr)
        pairs == SelectSeq(PairsFrom(Len(ids), 1, 2), LAMBDA q :
                     prefixesOverlap(cidrOf(ids[q[1]]), cidrOf(ids[q[2]])))
        what == IF v6 THEN "v6 overlap with" ELSE "overlap with"
        one(q) ==
            [calls |-> <<StatusCallN(ids[q[1]], statusConflict,
                                     what, segByID(segs, ids[q[2]]).name),
                         StatusCallN(ids[q[2]], statusConflict,
                                     what, segByID(segs, ids[q[1]]).name)>>,
             conflicts |-> <<Conflict(IF v6 THEN "OVERLAP_V6" ELSE "OVERLAP",
                                      LevelConflict, ids[q[1]], ids[q[2]],
                                      IF v6 THEN "ipv6" ELSE "ipv4")>>]
    IN [k \in 1..Len(pairs) |-> one(pairs[k])]

\* Concatenate the calls and the conflicts of a sequence of check results.
RECURSIVE Flatten(_, _)
Flatten(parts, i) ==
    IF i > Len(parts) THEN [calls |-> <<>>, conflicts |-> <<>>]
    ELSE LET rest == Flatten(parts, i + 1)
         IN [calls |-> parts[i].calls \o rest.calls,
             conflicts |-> parts[i].conflicts \o rest.conflicts]

\* The overlap loop "for k, ids := range group" of one family.  The groups
\* are the keys of a Go map: keyOrder is the order this run iterates them.
OverlapChecks(segs, keyOrder, v6) ==
    LET ok == SelectSeq(segs, LAMBDA s : ParseOK(IF v6 THEN s.cidrV6 ELSE s.cidr))
        keys == SelectSeq(keyOrder, LAMBDA k : \E i \in 1..Len(ok) : GroupKey(ok[i]) = k)
        idsOf(k) == LET m == SelectSeq(ok, LAMBDA s : GroupKey(s) = k)
                    IN [i \in 1..Len(m) |-> m[i].id]
        perKey == [i \in 1..Len(keys) |-> Flatten(OverlapInGroup(segs, idsOf(keys[i]), v6), 1)]
    IN Flatten(perKey, 1)

\* The duplicate-VLAN loop: every segment whose key was seen before is
\* reported against the first segment that had the key.
VlanChecks(segs, rules) ==
    LET dup == SelectSeq([i \in 1..Len(segs) |-> i], LAMBDA i :
                   \E j \in 1..(i - 1) : vlanKey(segs[j], rules) = vlanKey(segs[i], rules))
        first(i) == segs[CHOOSE j \in 1..(i - 1) :
                        /\ vlanKey(segs[j], rules) = vlanKey(segs[i], rules)
                        /\ \A h \in 1..(j - 1) : vlanKey(segs[h], rules) # vlanKey(segs[i], rules)]
        one(i) ==
            [calls |-> <<StatusCall(segs[i].id, statusConflict, "duplicate VLAN"),
                         StatusCall(first(i).id, statusConflict, "duplicate VLAN")>>,
             conflicts |-> <<Conflict("VLAN_DUP", LevelConflict, first(i).id, segs[i].id, "none")>>]
    IN Flatten([k \in 1..Len(dup) |-> one(dup[k])], 1)

\* analyzeSegments: per-segment checks, IPv4 overlaps, IPv6 overlaps,
\* duplicate VLANs; then one status per segment.
analyzeSegments(segs, pools, siteRows, rules, keyOrder) ==
    LET per == Flatten([i \in 1..Len(segs) |->
                           SegmentChecks(segs[i], pools, siteRows, rules)], 1)
        o4 == OverlapChecks(segs, keyOrder, FALSE)
        o6 == OverlapChecks(segs, keyOrder, TRUE)
        vl == VlanChecks(segs, rules)
        calls == per.calls \o o4.calls \o o6.calls \o vl.calls
    IN [statuses |-> [id \in {segs[i].id : i \in 1..Len(segs)} |-> addStatus(calls, id)],
        conflicts |-> per.conflicts \o o4.conflicts \o o6.conflicts \o vl.conflicts]

\* The orders in which a Go map with the key set S may be iterated.
MapOrders(S) ==
    {f \in [1..Cardinality(S) -> S] : \A i, j \in 1..Cardinality(S) : f[i] = f[j] => i = j}

\* ------------------------------------------------------ efficiency hints
\* A Conflict whose Detail prints numbers (a pool or block by address and
\* length, counts, percentages): detail is the sequence of those numbers.
Hint(kind, seg, fam, detail) ==
    Conflict(kind, LevelWarning, seg, 0, fam) @@ [detail |-> detail]

\* buildReservedIndex, third result: one RESERVED_PARSE per reserved range
\* that does not parse, sites in list order, ranges in text order.
reservedConflicts(siteRows) ==
    Flatten([i \in 1..Len(siteRows) |->
        [calls |-> <<>>,
         conflicts |->
            LET bad == SelectSeq([k \in 1..Len(siteRows[i].reserved) |-> k],
                           LAMBDA k : ~ParseOK(siteRows[i].reserved[k]))
            IN [k \in 1..Len(bad) |->
                   Hint("RESERVED_PARSE", 0, "none", <<siteRows[i].name, bad[k]>>)]]], 1).conflicts

\* buildUsedRanges: the IPv4 CIDRs of the segments, then the reserved
\* ranges, each clipped to the pool (prefixRangeWithin), sorted by
\* (start, end) and merged (mergeRanges, where last.end + 1 wraps).
buildUsedRanges(pool, segs, reserved) ==
    LET poolStart == Masked(pool).addr
        poolEnd == U32(poolStart + Pow2(V4Bits - pool.bits) - 1)
        own == SelectSeq(segs, LAMBDA s : ParseOK(s.cidr) /\ s.cidr.fam = "ipv4")
        res == SelectSeq(reserved, LAMBDA r : r.fam = "ipv4")
        all == [i \in 1..Len(own) |-> ParsePrefix(own[i].cidr)] \o res
        pStart(p) == Masked(p).addr
        pEnd(p) == U32(Masked(p).addr + Pow2(V4Bits - p.bits) - 1)
        hit == SelectSeq(all, LAMBDA p : ~(pEnd(p) < poolStart \/ pStart(p) > poolEnd))
        clip == [i \in 1..Len(hit) |->
                   [start |-> IF pStart(hit[i]) < poolStart THEN poolStart ELSE pStart(hit[i]),
                    end |-> IF pEnd(hit[i]) > poolEnd THEN poolEnd ELSE pEnd(hit[i])]]
        sorted == SortStable(clip, LAMBDA a, b :
                      IF a.start = b.start THEN a.end < b.end ELSE a.start < b.start)
        RECURSIVE mergeRanges(_, _)
        mergeRanges(i, out) ==
            IF i > Len(sorted) THEN out
            ELSE IF sorted[i].start <= U32(out[Len(out)].end + 1)
            THEN mergeRanges(i + 1,
                    IF sorted[i].end > out[Len(out)].end
                    THEN [out EXCEPT ![Len(out)].end = sorted[i].end]
                    ELSE out)
            ELSE mergeRanges(i + 1, Append(out, sorted[i]))
    IN IF Len(sorted) = 0 THEN <<>> ELSE mergeRanges(2, <<sorted[1]>>)

\* freeRanges: the gaps the used ranges leave in the pool; r.end + 1 wraps.
freeRanges(pool, used) ==
    LET poolStart == Masked(pool).addr
        poolEnd == U32(poolStart + Pow2(V4Bits - pool.bits) - 1)
        RECURSIVE walk(_, _, _)
        walk(i, cur, gaps) ==
            IF i > Len(used) \/ cur > poolEnd
            THEN IF cur <= poolEnd THEN Append(gaps, [start |-> cur, end |-> poolEnd])
                 ELSE gaps
            ELSE walk(i + 1,
                      IF U32(used[i].end + 1) > cur THEN U32(used[i].end + 1) ELSE cur,
                      IF used[i].start > cur
                      THEN Append(gaps, [start |-> cur, end |-> used[i].start - 1])
                      ELSE gaps)
    IN IF Len(used) = 0 THEN <<[start |-> poolStart, end |-> poolEnd]>>
       ELSE walk(1, poolStart, <<>>)

\* rangeToPrefixes: the aligned blocks that tile a range, largest first at
\* each start; start += blockSize wraps, and a block of length 0 ends the loop.
rangeToPrefixes(r) ==
    LET RECURSIVE TrailingZeros(_)
        TrailingZeros(n) ==
            IF n = 0 THEN V4Bits ELSE IF n % 2 = 1 THEN 0 ELSE 1 + TrailingZeros(n \div 2)
        RECURSIVE fit(_, _)
        fit(maxPref, remaining) ==
            IF maxPref < V4Bits /\ Pow2(V4Bits - maxPref) > remaining
            THEN fit(maxPref + 1, remaining) ELSE maxPref
        RECURSIVE loop(_, _)
        loop(start, out) ==
            IF ~(start <= r.end) THEN out
            ELSE LET maxPref == fit(V4Bits - TrailingZeros(start), U32(r.end - start) + 1)
                     p == Masked(Pfx("ipv4", start, maxPref))
                 IN IF maxPref = 0 THEN Append(out, p)
                    ELSE loop(U32(start + Pow2(V4Bits - maxPref)), Append(out, p))
    IN loop(r.start, <<>>)

\* freeRangesBig: the gaps the used ranges leave in an IPv6 pool.
freeRangesBig(pool, used) ==
    LET poolStart == Masked(pool).addr
        poolEnd == poolStart + prefixSize(Masked(pool)) - 1
        RECURSIVE walk(_, _, _)
        walk(i, cur, gaps) ==
            IF i > Len(used) \/ cur > poolEnd
            THEN IF cur <= poolEnd THEN Append(gaps, [start |-> cur, end |-> poolEnd])
                 ELSE gaps
            ELSE walk(i + 1,
                      IF used[i].end + 1 > cur THEN used[i].end + 1 ELSE cur,
                      IF used[i].start > cur
                      THEN Append(gaps, [start |-> cur, end |-> used[i].start - 1])
                      ELSE gaps)
    IN IF Len(used) = 0 THEN <<[start |-> poolStart, end |-> poolEnd]>>
       ELSE walk(1, poolStart, <<>>)

\* bigRangeToPrefixes without its limit: the unit-sized blocks of a range,
\* from the first aligned address on.
bigRangeToPrefixes(r, unitPrefix) ==
    LET step == Pow2(V6Bits - unitPrefix)
        RECURSIVE loop(_, _)
        loop(start, out) ==
            IF start + step - 1 > r.end \/ start >= Pow2(V6Bits) THEN out
            ELSE loop(start + step, Append(out, Masked(Pfx("ipv6", start, unitPrefix))))
    IN IF unitPrefix <= 0 \/ unitPrefix > V6Bits THEN <<>>
       ELSE loop(alignUp(r.start, step), <<>>)

\* A POOL_FRAGMENTATION hint that always scores 100.
PoolHintsFull(pool, sizes, blocks, unit, v6) ==
    IF Len(sizes) = 0 THEN <<>>
    ELSE <<Hint(IF v6 THEN "POOL_FRAGMENTATION_V6" ELSE "POOL_FRAGMENTATION", 0, pool.fam,
                <<pool.addr, pool.bits, 0, Len(sizes), 100>>)>>

\* The hints of one pool with free space: POOL_FRAGMENTATION (free total,
\* number of gaps, score) and a POOL_GAP for each of the first three blocks.
\* sizes are the gap sizes and blocks the free blocks, both in gap order;
\* unit is the size the totals are counted in (1 for IPv4).  The score is
\* (total - largest) * 100 / total, 0 for no total; for IPv6 the source
\* computes it in float64, which gives the same integer for totals below 50.
PoolHints(pool, sizes, blocks, unit, v6) ==
    LET RECURSIVE Sum(_)
        Sum(i) == IF i > Len(sizes) THEN 0 ELSE sizes[i] + Sum(i + 1)
        total == Sum(1) \div unit
        largest == (CHOOSE m \in {sizes[i] : i \in 1..Len(sizes)} :
                       \A i \in 1..Len(sizes) : sizes[i] <= m) \div unit
        score == IF total = 0 THEN 0 ELSE ((total - largest) * 100) \div total
        shown == SubSeq(blocks, 1, IF Len(blocks) < 3 THEN Len(blocks) ELSE 3)
    IN IF Len(sizes) = 0 THEN <<>>
       ELSE <<Hint(IF v6 THEN "POOL_FRAGMENTATION_V6" ELSE "POOL_FRAGMENTATION", 0, pool.fam,
                   <<pool.addr, pool.bits, total, Len(sizes), score>>)>>
            \o [k \in 1..Len(shown) |->
                   Hint(IF v6 THEN "POOL_GAP_V6" ELSE "POOL_GAP", 0, pool.fam,
                        <<pool.addr, pool.bits, shown[k].addr, shown[k].bits>>)]

\* The two pool loops of analyzeEfficiency for one site and one family.
SiteHints(segs, pools, siteRows, siteID, v6) ==
    LET fam == IF v6 THEN "ipv6" ELSE "ipv4"
        segments == SelectSeq(segs, LAMBDA s : s.site = siteID)
        reserved == buildReservedIndex(siteRows, siteID, fam)
        mine == buildPoolIndex(pools, siteID, fam)
        own6 == SelectSeq(segments, LAMBDA s : ParseOK(s.cidrV6) /\ s.cidrV6.fam = "ipv6")
        usedV6 == [i \in 1..Len(own6) |-> ParsePrefix(own6[i].cidrV6)]
                  \o SelectSeq(reserved, LAMBDA r : r.fam = "ipv6")
        unitPrefix(pool) == IF pool.bits > V6Bits \div 2 THEN pool.bits ELSE V6Bits \div 2
        gaps(pool) == IF v6 THEN freeRangesBig(pool, buildUsedRangesBig(pool, usedV6))
                      ELSE freeRanges(pool, buildUsedRanges(pool, segments, reserved))
        blocksOf(pool, g) == IF v6 THEN bigRangeToPrefixes(g, unitPrefix(pool))
                             ELSE rangeToPrefixes(g)
        one(pool, gs) ==
            PoolHints(pool,
                [i \in 1..Len(gs) |-> IF v6 THEN gs[i].end - gs[i].start + 1
                                      ELSE U32(gs[i].end - gs[i].start) + 1],
                Flatten([i \in 1..Len(gs) |->
                            [calls |-> <<>>, conflicts |-> blocksOf(pool, gs[i])]], 1).conflicts,
                IF v6 THEN Pow2(V6Bits - unitPrefix(pool)) ELSE 1, v6)
    IN Flatten([i \in 1..Len(mine) |->
                   [calls |-> <<>>, conflicts |-> one(mine[i], gaps(mine[i]))]], 1).conflicts

\* The OVERSIZED / OVERSIZED_V6 loop of analyzeEfficiency over the segments.
OversizedHints(segs, rules, v6) ==
    LET t(s) == IF v6 THEN s.cidrV6 ELSE s.cidr
        width == IF v6 THEN V6Bits ELSE V4Bits
        required(s) == IF v6 THEN s.prefixV6 ELSE hostsToPrefixIPv4(s.hosts)
        pct(s) == ((Pow2(width - t(s).bits) - Pow2(width - required(s))) * 100)
                      \div Pow2(width - t(s).bits)
        hit == SelectSeq(segs, LAMBDA s :
                   /\ IF v6 THEN s.prefixV6 # 0 ELSE s.hosts # 0
                   /\ ParseOK(t(s))
                   /\ t(s).fam = (IF v6 THEN "ipv6" ELSE "ipv4")
                   /\ required(s) > 0 /\ required(s) <= width
                   /\ t(s).bits < required(s)
                   /\ pct(s) >= rules.OversizeThreshold)
    IN [i \in 1..Len(hit) |->
           Hint(IF v6 THEN "OVERSIZED_V6" ELSE "OVERSIZED", hit[i].id,
                IF v6 THEN "ipv6" ELSE "ipv4",
                <<t(hit[i]).addr, t(hit[i]).bits, pct(hit[i]), required(hit[i])>>)]

\* analyzeEfficiency: the IPv4 pools site by site, the IPv6 pools site by
\* site, the oversized IPv4 segments, the oversized IPv6 segments.  The pools
\* are the values of two Go maps keyed by site: siteV4 and siteV6 are the
\* orders in which this run iterates their keys.
analyzeEfficiency(segs, pools, siteRows, rules, siteV4, siteV6) ==
    LET over(order, v6) ==
            Flatten([i \in 1..Len(order) |->
                        [calls |-> <<>>,
                         conflicts |-> SiteHints(segs, pools, siteRows, order[i], v6)]],
                    1).conflicts
    IN over(siteV4, FALSE) \o over(siteV6, TRUE)
       \o OversizedHints(segs, rules, FALSE) \o OversizedHints(segs, rules, TRUE)

\* The same lists with the efficiency hints put in front.
analyzeHintsFirst(segs, pools, siteRows, rules, orders) ==
    LET an == analyzeSegments(segs, pools, siteRows, rules, orders.group)
    IN [statuses |-> an.statuses,
        conflicts |-> analyzeEfficiency(segs, pools, siteRows, rules,
                                        orders.siteV4, orders.siteV6)
                      \o reservedConflicts(siteRows) \o an.conflicts]

\* analyzeAll: the reserved-range parse conflicts, the conflicts of
\* analyzeSegments, the efficiency hints.  orders holds the iteration orders
\* of the run's maps: group (the overlap groups), siteV4 and siteV6 (the
\* pool maps).
analyzeAll(segs, pools, siteRows, rules, orders) ==
    LET an == analyzeSegments(segs, pools, siteRows, rules, orders.group)
    IN [statuses |-> an.statuses,
        conflicts |-> reservedConflicts(siteRows) \o an.conflicts
                      \o analyzeEfficiency(segs, pools, siteRows, rules,
                                           orders.siteV4, orders.siteV6)]

\* The iteration orders one run of analyzeAll may meet: of the overlap
\* groups, and of the keys of poolsBySiteV4 and poolsBySiteV6.
AnalyzeOrders(segs, pools) ==
    LET PoolSites(family) ==
            {pools[i].site : i \in {k \in 1..Len(pools) :
                Len(buildPoolIndex(<<pools[k]>>, pools[k].site, family)) > 0}}
    IN {[group |-> g, siteV4 |-> a, siteV6 |-> b] :
           g \in MapOrders({GroupKey(segs[i]) : i \in 1..Len(segs)}),
           a \in MapOrders(PoolSites("ipv4")),
           b \in MapOrders(PoolSites("ipv6"))}

\* ---------------------------------------------------------------- what-if
\* "" or the text of a plan entry.
PlanText(plan, id) == IF id \in DOMAIN plan THEN PrefixString(plan[id]) ELSE NullCIDR

\* The PlanChange of an existing segment.
PlanChange(s, planV4, planV6) ==
    [seg |-> s.id, site |-> s.siteName, vrf |-> s.vrf, vlan |-> s.vlan, name |-> s.name,
     old |-> cidrString(s.cidr), new |-> PlanText(planV4, s.id),
     oldV6 |-> cidrString(s.cidrV6), newV6 |-> PlanText(planV6, s.id),
     status |-> IF PlanText(planV4, s.id).valid THEN "moved" ELSE "unallocated",
     statusV6 |-> IF /\ PlanText(planV4, s.id).valid
                     /\ ~PlanText(planV6, s.id).valid
                     /\ cidrString(s.cidrV6).valid
                  THEN "unallocated" ELSE "none"]

\* Whether the diff loop reports the segment at all.
ChangeReported(c) ==
    /\ ~(~c.new.valid /\ ~c.old.valid /\ ~c.newV6.valid /\ ~c.oldV6.valid)
    /\ ~(c.new = c.old /\ c.newV6 = c.oldV6)

ChangeLess(a, b) ==
    IF a.site # b.site THEN a.site < b.site
    ELSE IF a.vrf # b.vrf THEN a.vrf < b.vrf
    ELSE a.vlan < b.vlan

\* runWhatIfPlan.  existing is the caller's list; the plan is made on a copy
\* of it extended with the candidate.  siteOrder and orders are the map
\* iteration orders of planAllocations and of analyzeAll.
WhatIfDiff(existing, planV4, planV6, moved) ==
    LET all == [i \in 1..Len(existing) |-> PlanChange(existing[i], planV4, planV6)]
    IN SelectSeq(all, LAMBDA c :
           ChangeReported(c) /\ c.status = (IF moved THEN "moved" ELSE "unallocated"))
WhatIfAnalysis(existing, extra, planSegments, pools, siteRows, rules, pl, plannedSegments, an) ==
    [Segment |-> extra,
     ProposedCIDR |-> PlanText(pl.planV4, extra.id),
     ProposedCIDRV6 |-> PlanText(pl.planV6, extra.id),
     Changes |-> SortStable(WhatIfDiff(existing, pl.planV4, pl.planV6, TRUE), ChangeLess),
     Unallocated |-> WhatIfDiff(existing, pl.planV4, pl.planV6, FALSE),
     Conflicts |-> pl.conflicts \o an.conflicts,
     planV4 |-> pl.planV4, planV6 |-> pl.planV6,
     allocV4 |-> pl.allocV4, allocV6 |-> pl.allocV6,
     planSegments |-> planSegments, planned |-> plannedSegments,
     existing |-> existing, hang |-> pl.hang]
WhatIfPlanned(existing, extra, planSegments, pools, siteRows, rules, orders, pl, plannedSegments) ==
    WhatIfAnalysis(existing, extra, planSegments, pools, siteRows, rules, pl, plannedSegments,
        analyzeAll(plannedSegments, pools, siteRows, rules, orders))
WhatIfPlan(existing, extra, planSegments, pools, siteRows, rules, orders, pl) ==
    WhatIfPlanned(existing, extra, planSegments, pools, siteRows, rules, orders, pl,
        applyPlan(planSegments, pl.planV4, pl.planV6))
runWhatIfPlan(existing, pools, siteRows, extra, rules, siteOrder, orders) ==
    WhatIfPlan(existing, extra, Append(existing, extra), pools, siteRows, rules, orders,
        planAllocations(Append(existing, extra), pools, siteRows, rules, siteOrder))

\* The store had the handler written the planned CIDRs back.
whatIfPersist(rows, result) ==
    [i \in 1..Len(rows) |->
        LET s == CHOOSE x \in {result.planned[k] : k \in 1..Len(result.planned)} :
                     x.id = rows[i].id
        IN [rows[i] EXCEPT !.cidr = s.cidr, !.cidrV6 = s.cidrV6]]

\* POST /whatif: the handler reads the lists, runs the planner and renders;
\* it executes no statement on the store.
whatIfStore(rows, result) == rows

\* ----------------------------------------------------------- segment views
\* The pool label of a view: empty, or the CIDR, tier and priority of a pool.
NoLabel == [set |-> FALSE, cidr |-> NoPrefix, tier |-> 0, priority |-> 0]

\* A comparison by the size of the pool first.
poolRefSmaller(a, b) ==
    IF a.cidr.bits # b.cidr.bits THEN a.cidr.bits > b.cidr.bits
    ELSE IF a.priority # b.priority THEN a.priority < b.priority
    ELSE StrLess(PrefixChars(a.cidr), PrefixChars(b.cidr))

\* poolRefBetter: lower priority, then longer prefix, then smaller
\* Prefix.String.
poolRefBetter(a, b) ==
    IF a.priority # b.priority THEN a.priority < b.priority
    ELSE IF a.cidr.bits # b.cidr.bits THEN a.cidr.bits > b.cidr.bits
    ELSE StrLess(PrefixChars(a.cidr), PrefixChars(b.cidr))

\* poolLabelForPrefix: the best of the site's pools of p's family that
\* contain p, the first of them among equals; its CIDR, tier and priority.
poolLabelForPrefix(p, pools) ==
    LET RECURSIVE scan(_, _)
        scan(i, best) ==
            IF i > Len(pools) THEN best
            ELSE IF pools[i].cidr.fam # p.fam \/ ~prefixWithin(pools[i].cidr, p)
                 THEN scan(i + 1, best)
                 ELSE IF best = 0 \/ poolRefBetter(pools[i], pools[best])
                      THEN scan(i + 1, i) ELSE scan(i + 1, best)
        best == scan(1, 0)
    IN IF best = 0 THEN NoLabel
       ELSE [set |-> TRUE, cidr |-> pools[best].cidr, tier |-> pools[best].tier,
             priority |-> pools[best].priority]

\* buildSegmentViews: per segment the status label, the two CIDR texts and
\* the two pool labels (the address details, gateways and DHCP texts of the
\* view are left out).
buildSegmentViews(segs, statuses, pools) ==
    [i \in 1..Len(segs) |->
        LET s == segs[i]
            mine == SelectSeq(pools, LAMBDA q : q.site = s.site)
        IN [seg |-> s.id,
            StatusLabel |-> Label(statuses[s.id].level),
            CIDR |-> cidrString(s.cidr), CIDRV6 |-> cidrString(s.cidrV6),
            PoolLabel |-> IF ParseOK(s.cidr)
                          THEN poolLabelForPrefix(ParsePrefix(s.cidr), mine) ELSE NoLabel,
            PoolLabelV6 |-> IF ParseOK(s.cidrV6)
                            THEN poolLabelForPrefix(ParsePrefix(s.cidrV6), mine) ELSE NoLabel]]

\* -------------------------------------------------------- capacity report
\* formatBigInt: the decimal digits (with the sign) in groups of three from
\* the right, joined by '_'.
formatBigInt(n) ==
    LET RECURSIVE group(_)
        group(t) == IF Len(t) <= 3 THEN t
                    ELSE group(SubSeq(t, 1, Len(t) - 3)) \o <<95>>
                         \o SubSeq(t, Len(t) - 2, Len(t))
    IN group(IF n < 0 THEN <<45>> \o Digits(0 - n, 10) ELSE Digits(n, 10))

\* sumIPv4Ranges: end - start + 1 is computed in uint32 and then widened.
RECURSIVE sumIPv4Ranges(_)
sumIPv4Ranges(ranges) ==
    IF Len(ranges) = 0 THEN 0
    ELSE U32(ranges[1].end - ranges[1].start + 1) + sumIPv4Ranges(Tail(ranges))

\* sumBigRanges.
RECURSIVE sumBigRanges(_)
sumBigRanges(ranges) ==
    IF Len(ranges) = 0 THEN 0
    ELSE (ranges[1].end - ranges[1].start + 1) + sumBigRanges(Tail(ranges))

\* collectUsedPrefixesV6: the IPv6 CIDRs of the segments, then the IPv6
\* reserved ranges.
collectUsedPrefixesV6(segs, reserved) ==
    LET own == SelectSeq(segs, LAMBDA s : ParseOK(s.cidrV6) /\ s.cidrV6.fam = "ipv6")
    IN [i \in 1..Len(own) |-> ParsePrefix(own[i].cidrV6)]
       \o SelectSeq(reserved, LAMBDA r : r.fam = "ipv6")

\* The CapacityPool of one pool (loop body of buildCapacityReport): ranges is
\* the list of used ranges the body builds, total, used and free its three
\* counts and Total, Used, Free their texts.  Utilization, Units and Forecast
\* (float formatting of used / total) are left out.
CapacityCounts(p, family, ranges, total, used) ==
    [site |-> p.siteName, family |-> family, tier |-> poolTierValue(p),
     priority |-> p.priority, cidr |-> p.cidr, ranges |-> ranges,
     total |-> total, used |-> used, free |-> total - used,
     Total |-> formatBigInt(total), Used |-> formatBigInt(used),
     Free |-> formatBigInt(total - used)]
CapacityUsed(p, family, ranges) ==
    CapacityCounts(p, family, ranges, prefixSize(p.cidr),
        IF family = "ipv4" THEN sumIPv4Ranges(ranges) ELSE sumBigRanges(ranges))
CapacityFor(p, family, segments, reserved) ==
    CapacityUsed(p, family,
        IF family = "ipv4" THEN buildUsedRanges(p.cidr, segments, reserved)
        ELSE buildUsedRangesBig(p.cidr, collectUsedPrefixesV6(segments, reserved)))
CapacityPool(p, segs, siteRows) ==
    CapacityFor(p, normalizePoolFamily(p.family),
        SelectSeq(segs, LAMBDA s : s.site = p.site),
        buildReservedIndex(siteRows, p.site, normalizePoolFamily(p.family)))

\* buildSummary, without the utilization.
buildSummary(used, total) ==
    IF total = 0 THEN [Total |-> <<48>>, Used |-> <<48>>, Free |-> <<48>>]
    ELSE [Total |-> formatBigInt(total), Used |-> formatBigInt(used),
          Free |-> formatBigInt(total - used)]

\* buildCapacityReport: a CapacityPool for each pool whose CIDR (a stored
\* Prefix.String, which parses) is of the pool's family, stably sorted by (site, family, priority, CIDR), and
\* the sums per family.
RECURSIVE CapacitySum(_, _, _, _)
CapacitySum(rows, i, family, field) ==
    IF i > Len(rows) THEN 0
    ELSE (IF rows[i].family = family THEN rows[i][field] ELSE 0)
         + CapacitySum(rows, i + 1, family, field)
CapacityReportOf(rows) ==
    [Pools |-> SortStable(rows, LAMBDA a, b :
                   IF a.site # b.site THEN a.site < b.site
                   ELSE IF a.family # b.family THEN a.family = "ipv4"
                   ELSE IF a.priority # b.priority THEN a.priority < b.priority
                   ELSE StrLess(PrefixChars(a.cidr), PrefixChars(b.cidr))),
     SummaryV4 |-> buildSummary(CapacitySum(rows, 1, "ipv4", "used"),
                                CapacitySum(rows, 1, "ipv4", "total")),
     SummaryV6 |-> buildSummary(CapacitySum(rows, 1, "ipv6", "used"),
                                CapacitySum(rows, 1, "ipv6", "total"))]
CapacityRows(kept, segs, siteRows) ==
    [i \in 1..Len(kept) |-> CapacityPool(kept[i], segs, siteRows)]
buildCapacityReport(segs, pools, siteRows) ==
    CapacityReportOf(
        CapacityRows(SelectSeq(pools, LAMBDA p : p.cidr.fam = normalizePoolFamily(p.family)),
                     segs, siteRows))

\* --------------------------------------------------------- the snapshots
\* Blocks are named by their position among the eight /3 blocks of the
\* address space, so the catalogs do not depend on the address width.
Blk4(k, bits) == Pfx("ipv4", k * Pow2(V4Bits - 3), bits)
Blk6(k, bits) == Pfx("ipv6", k * Pow2(V6Bits - 3), bits)

\* The sites of the project: id, name (rank), reserved_ranges.
SiteIDs == {1, 2}
SiteRow(id, reserved) == [id |-> id, name |-> id, reserved |-> reserved]
\* The reserved ranges a site may have: the first /3 block of each family.
SomeReserved == <<PrefixString(Blk4(0, 3)), PrefixString(Blk6(0, 3))>>

\* A pool row.
PoolRow(id, site, cidr, tier, priority) ==
    [id |-> id, site |-> site, siteName |-> site, cidr |-> cidr,
     family |-> cidr.fam, tier |-> tier, priority |-> priority]

\* The pool layouts: one pool at the second site, and at the first site
\*   "overlap"  two overlapping IPv4 pools (the second site has none);
\*   "dual"     an IPv4 and an IPv6 pool;
\*   "top"      an IPv4 pool that ends at the top of the address space;
\*   "high"     an IPv4 pool in the upper half of the address space;
\*   "tiers"    an IPv4 pool of tier 1 and one without tier;
\*   "one"      a single IPv4 pool of four /3 blocks (the second site has none).
Layout(name) ==
    LET second == <<PoolRow(9, 2, Blk4(0, 1), 0, 0)>>
    IN CASE name = "overlap" -> <<PoolRow(1, 1, Blk4(0, 2), 0, 0), PoolRow(2, 1, Blk4(0, 1), 0, 1)>>
         [] name = "dual" -> <<PoolRow(1, 1, Blk4(0, 2), 0, 0), PoolRow(2, 1, Blk6(0, 2), 0, 0)>> \o second
         [] name = "top" -> <<PoolRow(1, 1, Blk4(6, 2), 0, 0)>> \o second
         [] name = "high" -> <<PoolRow(1, 1, Blk4(4, 2), 0, 0)>> \o second
         [] name = "tiers" -> <<PoolRow(1, 1, Blk4(0, 2), 1, 0), PoolRow(2, 1, Blk4(2, 2), 0, 0)>> \o second
         [] name = "one" -> <<PoolRow(1, 1, Blk4(0, 1), 0, 0)>>

RulesWith(strategy, fallback) ==
    [defaultProjectRules EXCEPT !.PoolStrategy = strategy, !.PoolTierFallback = fallback]

\* The scenarios: a pool layout, the rules of the project and the reserved
\* ranges of the first site.
Scenarios ==
    { <<"overlap", RulesWith(PoolStrategySpillover, TRUE), SomeReserved>>,
      <<"overlap", RulesWith(PoolStrategyContig, TRUE), <<>> >>,
      <<"dual", RulesWith(PoolStrategySpillover, TRUE), <<>> >>,
      <<"dual", RulesWith(PoolStrategyContig, TRUE), SomeReserved>>,
      <<"top", RulesWith(PoolStrategySpillover, TRUE), <<>> >>,
      <<"high", RulesWith(PoolStrategySpillover, TRUE), <<>> >>,
      <<"tiers", RulesWith(PoolStrategyTiered, TRUE), <<>> >>,
      <<"tiers", RulesWith(PoolStrategyTiered, FALSE), SomeReserved>> }

\* The kinds of segment rows: what is requested and what is stored.
SegKind(name) ==
    LET base == [hosts |-> 0, prefix |-> 0, prefixV6 |-> 0, cidr |-> NullCIDR,
                 cidrV6 |-> NullCIDR, locked |-> FALSE, tier |-> 0]
    IN CASE name = "req3" -> [base EXCEPT !.prefix = 3]
         [] name = "req2stale" -> [base EXCEPT !.prefix = 2, !.cidr = PrefixString(Blk4(7, 3))]
         [] name = "hosts1" -> [base EXCEPT !.hosts = 1, !.tier = 1]
         [] name = "req1" -> [base EXCEPT !.prefix = 1]
         [] name = "dual" -> [base EXCEPT !.prefix = 3, !.prefixV6 = 3]
         [] name = "noreq" -> [base EXCEPT !.cidr = PrefixString(Blk4(1, 3))]
         [] name = "locked" -> [base EXCEPT !.prefix = 3, !.locked = TRUE,
                                            !.cidr = PrefixString(Blk4(0, 3))]
         [] name = "lockedNoCIDR" -> [base EXCEPT !.prefix = 3, !.locked = TRUE]
         [] name = "lockedV6" -> [base EXCEPT !.prefix = 3, !.prefixV6 = 3, !.locked = TRUE,
                                              !.cidr = PrefixString(Blk4(2, 3)),
                                              !.cidrV6 = Text(Blk6(0, 3), FALSE)]
         [] name = "users" -> [base EXCEPT !.prefix = 3, !.cidr = PrefixString(Blk4(0, 3))]
         [] name = "v6only" -> [base EXCEPT !.prefixV6 = 3]
         [] name = "lockedWide" -> [base EXCEPT !.prefix = 2, !.locked = TRUE,
                                                !.cidr = PrefixString(Blk4(0, 2)),
                                                !.cidrV6 = PrefixString(Blk6(0, 2))]
         [] name = "out" -> [base EXCEPT !.prefix = 3, !.cidr = PrefixString(Blk4(4, 3)),
                                         !.cidrV6 = PrefixString(Blk6(4, 3))]
         [] name = "bad" -> [base EXCEPT !.prefix = 3, !.cidr = BadText]
         [] name = "gold" -> [base EXCEPT !.prefix = 2, !.tier = 1]
         [] name = "silver" -> [base EXCEPT !.prefix = 3, !.tier = 2]
         [] name = "roomy" -> [base EXCEPT !.hosts = 1, !.prefixV6 = 3,
                                           !.cidr = PrefixString(Blk4(1, 2)),
                                           !.cidrV6 = PrefixString(Blk6(1, 2))]
SegKinds ==
    {"req3", "req2stale", "hosts1", "req1", "dual", "noreq", "locked",
     "lockedNoCIDR", "lockedV6"}

\* A segment row: ids are 1, 2, ...; VRF 1; VLAN and name follow the id.
SegRow(id, site, kind) ==
    [id |-> id, site |-> site, siteName |-> site, vrf |-> 1, vlan |-> id, name |-> id]
    @@ SegKind(kind)

\* The kinds of the rows after the second: plain requests.
MoreKinds == {"req3"}

\* The stores: MaxSegs rows, all at the first site but the last, which is
\* at either site; the first two rows are of any kind.
Stores ==
    {[i \in 1..MaxSegs |-> SegRow(i, IF i < MaxSegs THEN 1 ELSE last, kinds[i])] :
        kinds \in {k \in [1..MaxSegs -> SegKinds] : \A i \in 3..MaxSegs : k[i] \in MoreKinds},
        last \in SiteIDs}

\* A segment row at a VRF and with a VLAN of choice.
SegRowAt(id, site, vrf, vlan, kind) ==
    [SegRow(id, site, kind) EXCEPT !.vrf = vrf, !.vlan = vlan]

\* The projects of the planning runs: one or two rows at the first site, in
\* one VRF, the second with the VLAN of the first or with another.
PlanKinds ==
    {"users", "req3", "v6only", "locked", "lockedWide", "noreq", "dual", "gold", "silver"}
PlanStores ==
    {<<SegRowAt(1, 1, 1, 1, k)>> : k \in PlanKinds}
    \cup {<<SegRowAt(1, 1, 1, 1, k[1]), SegRowAt(2, 1, 1, v, k[2])>> :
              k \in [{1, 2} -> PlanKinds], v \in {1, 2}}
PlanScenarios ==
    { <<"one", defaultProjectRules, <<>> >>,
      <<"dual", RulesWith(PoolStrategySpillover, TRUE), SomeReserved \o <<BadText>> >>,
      <<"tiers", RulesWith(PoolStrategyTiered, FALSE), <<>> >>,
      <<"tiers", RulesWith(PoolStrategyTiered, TRUE), <<>> >> }

\* The projects of the analyzer runs: three rows.  The first is in the first
\* site and VRF with the first VLAN, the second anywhere, the third in the
\* first site; all three hold CIDRs (inside or outside the pools, valid or
\* not, overlapping or not).  The rules vary in the VLAN scope and in the
\* two severity flags.
AnalysisStores ==
    {<<SegRowAt(1, 1, 1, 1, k1),
       SegRowAt(2, p2[1], p2[2], p2[3], k2),
       SegRowAt(3, 1, p3[1], p3[2], k3)>> :
        k1 \in {"users", "lockedV6"},
        k2 \in {"lockedWide", "out", "bad", "req3"},
        k3 \in {"locked", "roomy", "lockedV6"},
        p2 \in SiteIDs \X {1, 2} \X {1, 2},
        p3 \in {1, 2} \X {1, 2}}
AnalysisRules ==
    {[defaultProjectRules EXCEPT !.VLANScope = scope, !.RequireInPool = inPool,
                                 !.AllowReservedOverlap = overlap] :
        scope \in {VlanScopeSiteVRF, VlanScopeSite, VlanScopeGlobal},
        inPool \in BOOLEAN, overlap \in BOOLEAN}

\* ------------------------------------------------------- the state machine
\* Requests are served one at a time: a handler runs as one step and leaves
\* its response in resp; Respond delivers it before the next request.
VARIABLES
    siteRows,   \* the sites table (with reserved_ranges)
    poolRows,   \* the pools table
    rules,      \* the project's rules
    store,      \* the segments table
    allocated,  \* the last POST /allocate returned success
    resp        \* the response being delivered, with what the handler saw

vars == <<siteRows, poolRows, rules, store, allocated, resp>>

Idle == [op |-> "none"]

Init ==
    /\ \E sc \in Scenarios :
          /\ poolRows = Layout(sc[1])
          /\ rules = sc[2]
          /\ siteRows = <<SiteRow(1, sc[3]), SiteRow(2, <<>>)>>
    /\ store \in Stores
    /\ allocated = FALSE
    /\ resp = Idle

\* The faults of one call: none, a failing clear or update of one family at
\* one site (after the rows in done were written), or a failing Commit.
Faults ==
    {NoFault}
    \cup {[at |-> "clear", site |-> st, fam |-> f, done |-> {}] :
             st \in SiteIDs, f \in {"ipv4", "ipv6"}}
    \cup {[at |-> "update", site |-> st, fam |-> f, done |-> d] :
             st \in SiteIDs, f \in {"ipv4", "ipv6"}, d \in {{}, {1}}}
    \cup {[at |-> "commit", site |-> st, fam |-> "ipv4", done |-> {}] : st \in SiteIDs}

\* POST /allocate: allocateProject on the store.  A run that never returns
\* leaves what the earlier sites committed, and no response.
Allocate ==
    /\ resp = Idle
    /\ \E fault \in Faults :
        \E r \in {allocateProject(store, siteRows, poolRows, rules, fault)} :
           /\ store' = r.rows
           /\ allocated' = (~r.hang /\ ~r.err)
           /\ resp' = [op |-> "allocate",
                       outcome |-> IF r.hang THEN "hang" ELSE IF r.err THEN "error" ELSE "ok",
                       before |-> store, allocV4 |-> r.allocV4, allocV6 |-> r.allocV6,
                       done |-> r.done, failed |-> r.failed,
                       ranV4 |-> r.ranV4, ranV6 |-> r.ranV6]
           /\ UNCHANGED <<siteRows, poolRows, rules>>

\* The candidate segments of a what-if form (parseWhatIfSegment): id 0, a
\* site of the project, a VLAN and a name of its own, unlocked, no CIDR.
WhatIfSegments ==
    {[id |-> 0, site |-> st, siteName |-> st, vrf |-> 1, vlan |-> MaxSegs + 1,
      name |-> MaxSegs + 1, hosts |-> 0, prefix |-> q[1], prefixV6 |-> q[2],
      cidr |-> NullCIDR, cidrV6 |-> NullCIDR, locked |-> FALSE, tier |-> 0] :
        st \in SiteIDs, q \in {<<3, 0>>, <<1, 0>>, <<0, 3>>}}

\* POST /whatif with a well-formed candidate.
WhatIf ==
    /\ resp = Idle
    /\ \E extra \in WhatIfSegments :
      \E segs \in {listSegments(store)} :
        \E siteOrder \in MapOrders({segs[i].site : i \in 1..Len(segs)} \cup {extra.site}) :
         \E pl \in {planAllocations(Append(segs, extra), listPools(poolRows),
                                    listSites(siteRows), rules, siteOrder)} :
          \E orders \in AnalyzeOrders(Append(segs, extra), listPools(poolRows)) :
           \E r \in {WhatIfPlan(segs, extra, Append(segs, extra), listPools(poolRows),
                                listSites(siteRows), rules, orders, pl)} :
              /\ store' = whatIfStore(store, r)
              /\ resp' = [op |-> "whatif",
                          outcome |-> IF r.hang THEN "hang" ELSE "ok",
                          before |-> store, listed |-> segs, result |-> r]
              /\ UNCHANGED <<siteRows, poolRows, rules, allocated>>

\* analyzeSegments called on the listed segments (as the smoke test calls
\* it), under the project's rules or the default rules.
Analyze ==
    /\ resp = Idle
    /\ \E ar \in {rules, defaultProjectRules} :
      \E segs \in {listSegments(store)} :
        \E keyOrder \in MapOrders({GroupKey(segs[i]) : i \in 1..Len(segs)}) :
           \E r \in {analyzeSegments(segs, listPools(poolRows), listSites(siteRows),
                                     ar, keyOrder)} :
              /\ resp' = [op |-> "analysis", outcome |-> "ok", rules |-> ar,
                          listed |-> segs, statuses |-> r.statuses,
                          conflicts |-> r.conflicts]
              /\ UNCHANGED <<siteRows, poolRows, rules, store, allocated>>

\* The response is delivered; a handler that never returns delivers none.
Respond ==
    /\ resp # Idle
    /\ resp.outcome # "hang"
    /\ resp' = Idle
    /\ UNCHANGED <<siteRows, poolRows, rules, store, allocated>>

Next == Allocate \/ WhatIf \/ Analyze \/ Respond

Spec == Init /\ [][Next]_vars

\* GET /conflicts: analyzeAll on the lists, under the project's rules.
Conflicts ==
    /\ resp = Idle
    /\ \E segs \in {listSegments(store)} :
        \E orders \in AnalyzeOrders(segs, listPools(poolRows)) :
           \E r \in {analyzeAll(segs, listPools(poolRows), listSites(siteRows),
                                rules, orders)} :
              /\ resp' = [op |-> "conflicts", outcome |-> "ok", rules |-> rules,
                          listed |-> segs, statuses |-> r.statuses,
                          conflicts |-> r.conflicts]
              /\ UNCHANGED <<siteRows, poolRows, rules, store, allocated>>

\* The planning runs: what-if requests and conflict pages on a project of
\* PlanStores.
InitPlan ==
    /\ \E sc \in PlanScenarios :
          /\ poolRows = Layout(sc[1])
          /\ rules = sc[2]
          /\ siteRows = <<SiteRow(1, sc[3]), SiteRow(2, <<>>)>>
    /\ store \in PlanStores
    /\ allocated = FALSE
    /\ resp = Idle

\* The analyzer runs: conflict pages on a project of AnalysisStores whose
\* first site has an IPv4 and an IPv6 pool and reserves an IPv4 range (listed
\* twice), an IPv6 range and a text that is no prefix.
InitAnalysis ==
    /\ poolRows = Layout("dual")
    /\ rules \in AnalysisRules
    /\ siteRows = <<SiteRow(1, SomeReserved \o <<PrefixString(Blk4(0, 3)), BadText>>),
                   SiteRow(2, <<>>)>>
    /\ store \in AnalysisStores
    /\ allocated = FALSE
    /\ resp = Idle

NextAnalysis == Conflicts \/ Respond

SpecAnalysis == InitAnalysis /\ [][NextAnalysis]_vars

NextPlan == WhatIf \/ Conflicts \/ Respond

SpecPlan == InitPlan /\ [][NextPlan]_vars

\* The size runs: desiredPrefix applied to one segment row whose host count
\* is NULL (0) or 1 .. 2^V4Bits and whose prefix request is NULL (0) or
\* 1 .. V4Bits.
InitHosts ==
    /\ poolRows = Layout("one")
    /\ rules = defaultProjectRules
    /\ siteRows = <<SiteRow(1, <<>>)>>
    /\ \E h \in 0..Pow2(V4Bits), q \in 0..V4Bits :
          store = <<[SegRow(1, 1, "noreq") EXCEPT !.hosts = h, !.prefix = q]>>
    /\ allocated = FALSE
    /\ resp = Idle

\* desiredPrefix on the row of the store.
Derive ==
    /\ resp = Idle
    /\ resp' = [op |-> "desired", outcome |-> "ok", seg |-> store[1],
                want |-> desiredPrefix(store[1])]
    /\ UNCHANGED <<siteRows, poolRows, rules, store, allocated>>

NextHosts == Derive \/ Respond

SpecHosts == InitHosts /\ [][NextHosts]_vars

\* Blocks named by their distance from the bottom or from the top of the
\* address space: 2^log addresses starting at address at, or ending back
\* addresses below the top.
Low(fam, at, log) == Pfx(fam, at, addrBitLen(fam) - log)
Top(fam, back, log) == Pfx(fam, Pow2(addrBitLen(fam)) - back, addrBitLen(fam) - log)

\* The pool layouts of the capacity runs, one IPv4 and one IPv6 pool at the
\* first site and an IPv4 pool at the second:
\*   "low"    the pools are the lowest 16 addresses;
\*   "upper"  the pools are the highest 16 addresses;
\*   "odd"    the pools are stored with host bits set (8 addresses at 8).
CapacityLayout(name) ==
    LET pool(fam) == CASE name = "low" -> Low(fam, 0, 4)
                       [] name = "upper" -> Top(fam, 16, 4)
                       [] name = "odd" -> Low(fam, 9, 3)
    IN <<PoolRow(1, 1, pool("ipv4"), 0, 0), PoolRow(2, 1, pool("ipv6"), 0, 0),
         PoolRow(9, 2, Low("ipv4", 0, 3), 0, 0)>>

\* The CIDRs a row of the capacity runs may hold, as (low or top, address,
\* log of the size); the row holds the block in both families.
CapacityBlocks ==
    <<{<<"low", 0, 0>>, <<"low", 0, 2>>, <<"low", 8, 3>>, <<"top", 8, 3>>, <<"top", 16, 4>>},
      {<<"low", 4, 0>>, <<"low", 12, 2>>, <<"low", 0, 3>>, <<"top", 4, 2>>, <<"top", 8, 2>>},
      {<<"low", 8, 0>>, <<"low", 4, 2>>, <<"top", 2, 1>>, <<"none", 0, 0>>}>>
CapacityRow(id, b) ==
    LET blk(fam) == IF b[1] = "low" THEN Low(fam, b[2], b[3]) ELSE Top(fam, b[2], b[3])
    IN IF b[1] = "none" THEN SegRowAt(id, 1, id, id, "req3")
       ELSE [SegRowAt(id, 1, id, id, "req3") EXCEPT
                !.cidr = PrefixString(blk("ipv4")), !.cidrV6 = PrefixString(blk("ipv6")),
                !.prefix = V4Bits - b[3], !.prefixV6 = V6Bits - b[3]]
CapacityStores ==
    {<<CapacityRow(1, a), CapacityRow(2, b), CapacityRow(3, c)>> :
        a \in CapacityBlocks[1], b \in CapacityBlocks[2], c \in CapacityBlocks[3]}

\* The capacity runs: a project of CapacityStores on one of the layouts; the
\* first site may reserve 4 addresses at 4 in both families.
InitCapacity ==
    /\ \E name \in {"low", "upper", "odd"} : poolRows = CapacityLayout(name)
    /\ rules = defaultProjectRules
    /\ \E res \in {<<>>, <<PrefixString(Low("ipv4", 4, 2)), PrefixString(Low("ipv6", 4, 2))>>} :
          siteRows = <<SiteRow(1, res), SiteRow(2, <<>>)>>
    /\ store \in CapacityStores
    /\ allocated = FALSE
    /\ resp = Idle

\* GET /planning: buildCapacityReport on the lists.
Planning ==
    /\ resp = Idle
    /\ \E segs \in {listSegments(store)} :
          \E r \in {buildCapacityReport(segs, listPools(poolRows), listSites(siteRows))} :
             resp' = [op |-> "capacity", outcome |-> "ok", listed |-> segs, report |-> r]
    /\ UNCHANGED <<siteRows, poolRows, rules, store, allocated>>

\* The pool layouts of the view runs: at the first site a pool of the lowest
\* 16 addresses and two pools of 8 addresses at 8 (one stored with a host
\* bit set) in IPv4 and a pool in IPv6, with the priorities given.
ViewLayout(wide, narrow) ==
    <<PoolRow(1, 1, Low("ipv4", 0, 4), 0, wide), PoolRow(2, 1, Low("ipv4", 9, 3), 1, narrow),
      PoolRow(3, 1, Low("ipv4", 8, 3), 0, narrow), PoolRow(4, 1, Low("ipv6", 0, 4), 0, 0),
      PoolRow(5, 1, Low("ipv6", 8, 3), 0, wide), PoolRow(9, 2, Low("ipv4", 0, 3), 0, 0)>>

InitViews ==
    /\ \E wide \in {0, 1}, narrow \in {0, 1} : poolRows = ViewLayout(wide, narrow)
    /\ rules = defaultProjectRules
    /\ siteRows = <<SiteRow(1, <<>>), SiteRow(2, <<>>)>>
    /\ store \in CapacityStores
    /\ allocated = FALSE
    /\ resp = Idle

\* GET /segments: analyzeAll on the lists, then buildSegmentViews.
Segments ==
    /\ resp = Idle
    /\ \E segs \in {listSegments(store)} :
          \E orders \in AnalyzeOrders(segs, listPools(poolRows)) :
             \E an \in {analyzeAll(segs, listPools(poolRows), listSites(siteRows),
                                    rules, orders)} :
                resp' = [op |-> "views", outcome |-> "ok", listed |-> segs,
                         conflicts |-> an.conflicts,
                         views |-> buildSegmentViews(segs, an.statuses, listPools(poolRows))]
    /\ UNCHANGED <<siteRows, poolRows, rules, store, allocated>>

NextViews == Segments \/ Respond

SpecViews == InitViews /\ [][NextViews]_vars

NextCapacity == Planning \/ Conflicts \/ Respond

SpecCapacity == InitCapacity /\ [][NextCapacity]_vars

\* The used list of an allocator call at the first site had every CIDR of
\* the store been in it, with the site's reserved ranges.
StoreUsed(family) ==
    LET held == SelectSeq(store, LAMBDA s : ParseOK(segmentCIDRByFamily(s, family)))
    IN [i \in 1..Len(held) |-> ParsePrefix(segmentCIDRByFamily(held[i], family))]
       \o ReservedOf(siteRows[1], family)

\* The pool runs: allocateInPool applied to the IPv4 pool and to the IPv6
\* pool of the first site, for one requested length and the used lists of
\* the store, which hold the same blocks in both families.
Place ==
    /\ resp = Idle
    /\ \E want \in 1..V4Bits :
          \E out4 \in {allocateInPool(poolRows[1].cidr, want, StoreUsed("ipv4"))},
             out6 \in {allocateInPool(poolRows[2].cidr, want, StoreUsed("ipv6"))} :
             resp' = [op |-> "place",
                      outcome |-> IF out4.hang \/ out6.hang THEN "hang" ELSE "ok",
                      want |-> want,
                      pool4 |-> poolRows[1].cidr, pool6 |-> poolRows[2].cidr,
                      used4 |-> StoreUsed("ipv4"), used6 |-> StoreUsed("ipv6"),
                      out4 |-> out4, out6 |-> out6]
    /\ UNCHANGED <<siteRows, poolRows, rules, store, allocated>>

\* The gap runs: the IPv4 pool loop of analyzeEfficiency on the first pool,
\* the free ranges of the pool and the blocks of each.
Gaps ==
    /\ resp = Idle
    /\ \E segs \in {listSegments(store)} :
          \E free \in {freeRanges(poolRows[1].cidr,
                           buildUsedRanges(poolRows[1].cidr,
                               SelectSeq(segs, LAMBDA s : s.site = poolRows[1].site),
                               buildReservedIndex(listSites(siteRows), poolRows[1].site,
                                                  "ipv4")))} :
             resp' = [op |-> "gaps", outcome |-> "ok", listed |-> segs,
                      pool |-> poolRows[1].cidr, free |-> free,
                      blocks |-> [i \in 1..Len(free) |-> rangeToPrefixes(free[i])]]
    /\ UNCHANGED <<siteRows, poolRows, rules, store, allocated>>

NextPool == Place \/ Gaps \/ Respond

SpecPool == InitCapacity /\ [][NextPool]_vars

\* The strategy runs: at the first site two IPv4 pools that do not overlap
\* and the same two blocks as IPv6 pools, the first of lower priority
\* number; three unlocked rows that request 16, 8, 4 or 2 addresses in both
\* families; the site may reserve 4 addresses at 4.
StrategyBlocks ==
    {<<"low", 0, 3>>, <<"low", 8, 3>>, <<"low", 16, 3>>, <<"top", 8, 3>>,
     <<"low", 8, 2>>, <<"top", 4, 2>>}
StrategyBlock(fam, b) == IF b[1] = "low" THEN Low(fam, b[2], b[3]) ELSE Top(fam, b[2], b[3])
StrategyLayout(a, b) ==
    <<PoolRow(1, 1, StrategyBlock("ipv4", a), 0, 0), PoolRow(2, 1, StrategyBlock("ipv4", b), 0, 1),
      PoolRow(3, 1, StrategyBlock("ipv6", a), 0, 0), PoolRow(4, 1, StrategyBlock("ipv6", b), 0, 1)>>
StrategyStores ==
    {[i \in 1..3 |-> [SegRowAt(i, 1, i, i, "req3") EXCEPT !.prefix = w[i], !.prefixV6 = w[i]]] :
        w \in [1..3 -> 1..4]}
InitStrategies ==
    /\ \E a, b \in StrategyBlocks :
          /\ prefixesOverlap(StrategyBlock("ipv4", a), StrategyBlock("ipv4", b)) = FALSE
          /\ poolRows = StrategyLayout(a, b)
    /\ rules = defaultProjectRules
    /\ \E res \in {<<>>, <<PrefixString(Low("ipv4", 4, 2)), PrefixString(Low("ipv6", 4, 2))>>} :
          siteRows = <<SiteRow(1, res), SiteRow(2, <<>>)>>
    /\ store \in StrategyStores
    /\ allocated = FALSE
    /\ resp = Idle

\* planAllocateFamily on the first site's segments and pools, once under the
\* spillover and once under the contiguous strategy, for both families.
Strategies ==
    /\ resp = Idle
    /\ \E segs \in {SelectSeq(listSegments(store), LAMBDA s : s.site = 1)},
          pools \in {SelectSeq(listPools(poolRows), LAMBDA p : p.site = 1)} :
          \E run \in {[st \in {PoolStrategySpillover, PoolStrategyContig} |->
                         [fam \in {"ipv4", "ipv6"} |->
                             planAllocateFamily(segs, pools,
                                 buildReservedIndex(listSites(siteRows), 1, fam),
                                 RulesWith(st, TRUE), fam)]]} :
             resp' = [op |-> "strategies",
                      outcome |-> IF \E st \in DOMAIN run, fam \in {"ipv4", "ipv6"} :
                                        run[st][fam].hang
                                  THEN "hang" ELSE "ok",
                      listed |-> segs, pools |-> pools,
                      spill |-> run[PoolStrategySpillover],
                      contig |-> run[PoolStrategyContig]]
    /\ UNCHANGED <<siteRows, poolRows, rules, store, allocated>>

NextStrategies == Strategies \/ Respond

SpecStrategies == InitStrategies /\ [][NextStrategies]_vars

\* ------------------------------------------------------ checked properties
\* Address ranges, computed from the prefix alone: first and last address,
\* disjointness and inclusion.
Width(fam) == IF fam = "ipv4" THEN V4Bits ELSE V6Bits
Lo(p) == (p.addr \div (2 ^ (Width(p.fam) - p.bits))) * (2 ^ (Width(p.fam) - p.bits))
Hi(p) == Lo(p) + (2 ^ (Width(p.fam) - p.bits)) - 1
Disjoint(a, b) == a.fam # b.fam \/ Hi(a) < Lo(b) \/ Hi(b) < Lo(a)
Inside(pool, p) == pool.fam = p.fam /\ Lo(pool) <= Lo(p) /\ Hi(p) <= Hi(pool)

Families == {"ipv4", "ipv6"}
Elems(seq) == {seq[i] : i \in 1..Len(seq)}
TextOf(s, fam) == IF fam = "ipv6" THEN s.cidrV6 ELSE s.cidr
PrefixOf(t) == [fam |-> t.fam, addr |-> t.addr, bits |-> t.bits]
Wanted(s, fam) ==
    IF fam = "ipv6" THEN s.prefixV6
    ELSE IF s.prefix # 0 THEN s.prefix
    ELSE IF s.hosts # 0 THEN hostsToPrefixIPv4(s.hosts) ELSE 0

\* What the response in resp shows of an allocator run (strict mode in
\* POST /allocate, planning mode in POST /whatif): the segments it was given
\* and the map it returned for a family.
AllocatorRan == resp.op \in {"allocate", "whatif"}
OutSegs == IF resp.op = "allocate" THEN resp.before ELSE resp.result.planSegments
OutMap(fam) ==
    IF resp.op = "allocate"
    THEN (IF fam = "ipv4" THEN resp.allocV4 ELSE resp.allocV6)
    ELSE (IF fam = "ipv4" THEN resp.result.allocV4 ELSE resp.result.allocV6)
SegOf(id) == CHOOSE s \in Elems(OutSegs) : s.id = id

\* The initial used set of a site and family: the reserved ranges of the
\* site and the assigned CIDRs of its locked segments.
UsedSet(site, fam) ==
    {PrefixOf(t) : t \in {u \in UNION {Elems(r.reserved) : r \in {x \in Elems(siteRows) : x.id = site}} :
                             u.valid /\ u.fam = fam}}
    \cup {PrefixOf(TextOf(s, fam)) :
             s \in {x \in Elems(OutSegs) :
                       x.site = site /\ x.locked /\ TextOf(x, fam).valid /\ TextOf(x, fam).fam = fam}}
PoolsOf(site, fam) ==
    {q.cidr : q \in {x \in Elems(poolRows) : x.site = site /\ x.family = fam /\ x.cidr.fam = fam}}

\* C1: in every allocator run, strict or planning, under every strategy, any
\* two prefixes of one family placed for segments of the same site and VRF
\* do not overlap.
C1_Disjoint ==
    AllocatorRan =>
        \A fam \in Families : \A a, b \in DOMAIN OutMap(fam) :
            (a # b /\ SegOf(a).site = SegOf(b).site /\ SegOf(a).vrf = SegOf(b).vrf)
                => Disjoint(OutMap(fam)[a], OutMap(fam)[b])
\* A strict run that placed two segments of one site and VRF.
C1_Witness ==
    /\ resp.op = "allocate"
    /\ resp.outcome = "ok"
    /\ \E a, b \in DOMAIN resp.allocV4 :
          a # b /\ SegOf(a).site = SegOf(b).site /\ SegOf(a).vrf = SegOf(b).vrf

\* C2: no prefix the allocator places overlaps a reserved range of the
\* segment's site or the assigned CIDR of a locked segment of that site,
\* for both families and every strategy, overlapping pools included.
C2_UsedSafe ==
    AllocatorRan =>
        \A fam \in Families : \A id \in DOMAIN OutMap(fam) :
            \A u \in UsedSet(SegOf(id).site, fam) : Disjoint(OutMap(fam)[id], u)
\* A placement at a site that has overlapping pools, a reserved range and a
\* locked segment with a CIDR.
C2_Witness ==
    /\ AllocatorRan
    /\ \E id \in DOMAIN OutMap("ipv4") :
          /\ \E x \in Elems(OutSegs) : x.site = SegOf(id).site /\ x.locked /\ x.cidr.valid
          /\ \E r \in Elems(siteRows) : r.id = SegOf(id).site /\ Len(r.reserved) > 0
          /\ \E q1, q2 \in PoolsOf(SegOf(id).site, "ipv4") : q1 # q2 /\ ~Disjoint(q1, q2)

\* C3: every prefix in an allocator output has exactly the desired length of
\* its segment and lies, first and last address, within a pool of its family
\* at the segment's site.
C3_WithinPool ==
    AllocatorRan =>
        \A fam \in Families : \A id \in DOMAIN OutMap(fam) :
            /\ OutMap(fam)[id].bits = Wanted(SegOf(id), fam)
            /\ \E q \in PoolsOf(SegOf(id).site, fam) : Inside(q, OutMap(fam)[id])

\* C4: after any POST /allocate, finished with success, with an error or
\* not at all, every locked segment holds the CIDRs it held before, and a
\* row that differs is an unlocked segment of a site whose allocation ran.
C4_LockedFixed ==
    resp.op = "allocate" =>
        \A i \in 1..Len(store) :
            /\ resp.before[i].locked => store[i] = resp.before[i]
            /\ store[i] # resp.before[i] =>
                  /\ ~resp.before[i].locked
                  /\ resp.before[i].site \in (resp.ranV4 \cup resp.ranV6)
\* A successful allocation that wrote a row of a site where a locked segment
\* holds a CIDR.
C4_Witness ==
    /\ resp.op = "allocate"
    /\ resp.outcome = "ok"
    /\ \E i, j \in 1..Len(store) :
          /\ resp.before[i].locked /\ resp.before[i].cidr.valid
          /\ resp.before[j].site = resp.before[i].site
          /\ store[j] # resp.before[j]

\* C5: for every locked segment with an assigned CIDR of a family, the plan
\* of planAllocations maps the segment to that CIDR and the list applyPlan
\* builds holds that CIDR.
C5_LockedPlanned ==
    resp.op = "whatif" =>
        \A fam \in Families : \A k \in 1..Len(resp.result.planSegments) :
            LET s == resp.result.planSegments[k]
                plan == IF fam = "ipv4" THEN resp.result.planV4 ELSE resp.result.planV6
            IN (s.locked /\ TextOf(s, fam).valid /\ TextOf(s, fam).fam = fam) =>
                  /\ s.id \in DOMAIN plan
                  /\ plan[s.id] = PrefixOf(TextOf(s, fam))
                  /\ TextOf(resp.result.planned[k], fam).valid
                  /\ PrefixOf(TextOf(resp.result.planned[k], fam)) = PrefixOf(TextOf(s, fam))

\* C6 as stated: when POST /allocate returns an error, every segment of
\* every site holds the CIDRs it held before the call.
C6_ErrorNoChange ==
    (resp.op = "allocate" /\ resp.outcome = "error") => store = resp.before
\* C6: when POST /allocate returns an error, every segment of the site that
\* failed and of the sites not yet reached holds the CIDRs it held before;
\* only the sites committed before the failure may differ.
C6_ErrorSiteNoChange ==
    (resp.op = "allocate" /\ resp.outcome = "error") =>
        \A i \in 1..Len(store) :
            resp.before[i].site \notin Elems(resp.done) => store[i] = resp.before[i]
\* An error at a site after the allocator had placed one of its segments.
C6_Witness ==
    /\ resp.op = "allocate"
    /\ resp.outcome = "error"
    /\ \E i \in 1..Len(store) :
          /\ resp.before[i].site = resp.failed
          /\ resp.before[i].id \in DOMAIN resp.allocV4

\* C7: after a POST /allocate that finished, for each site and family either
\* every candidate of the family at the site holds the CIDR the complete
\* plan gives it, or the CIDRs of the family at the site are as before.
C7_NoPartialPlan ==
    (resp.op = "allocate" /\ resp.outcome # "hang") =>
        \A st \in SiteIDs : \A fam \in Families :
            \/ \A i \in 1..Len(store) :
                  (/\ resp.before[i].site = st
                   /\ ~resp.before[i].locked
                   /\ Wanted(resp.before[i], fam) # 0) =>
                      /\ store[i].id \in DOMAIN OutMap(fam)
                      /\ TextOf(store[i], fam).valid
                      /\ TextOf(store[i], fam).canon
                      /\ PrefixOf(TextOf(store[i], fam)) = OutMap(fam)[store[i].id]
            \/ \A i \in 1..Len(store) :
                  resp.before[i].site = st =>
                      TextOf(store[i], fam) = TextOf(resp.before[i], fam)
\* A call that failed on a write after the allocator had placed every
\* candidate of the site, none of which had a CIDR before.
C7_Witness ==
    /\ resp.op = "allocate"
    /\ resp.outcome = "error"
    /\ Cardinality(DOMAIN resp.allocV4) = MaxSegs
    /\ \A i \in 1..Len(store) :
          resp.before[i].site = resp.failed /\ ~resp.before[i].cidr.valid

\* C8 as stated: after a successful POST /allocate every unlocked segment
\* with a size request for a family holds a valid CIDR of that family.
C8_AllAllocated ==
    (resp.op = "allocate" /\ resp.outcome = "ok") =>
        \A fam \in Families : \A i \in 1..Len(store) :
            (~store[i].locked /\ Wanted(store[i], fam) # 0) =>
                TextOf(store[i], fam).valid /\ TextOf(store[i], fam).fam = fam
\* C8: after a successful POST /allocate every unlocked segment with a size
\* request for a family, at a site that has a pool of that family, holds a
\* valid CIDR of that family.
C8_AllocatedWherePool ==
    (resp.op = "allocate" /\ resp.outcome = "ok") =>
        \A fam \in Families : \A i \in 1..Len(store) :
            (/\ ~store[i].locked
             /\ Wanted(store[i], fam) # 0
             /\ PoolsOf(store[i].site, fam) # {}) =>
                TextOf(store[i], fam).valid /\ TextOf(store[i], fam).fam = fam
\* A success that gave a CIDR to a host-count request that had none.
C8_Witness ==
    /\ resp.op = "allocate"
    /\ resp.outcome = "ok"
    /\ \E i \in 1..Len(store) :
          /\ ~store[i].locked /\ store[i].hosts # 0 /\ store[i].prefix = 0
          /\ ~resp.before[i].cidr.valid
          /\ store[i].cidr.valid

\* The conditions of C9 on the project: every site with segments has an
\* IPv4 pool; every segment has an IPv4 size request, no IPv6 request and no
\* IPv6 CIDR; VLANs are unique within (site, VRF); every locked segment has a
\* CIDR inside a pool of its site that overlaps no other locked segment's
\* and no reserved range of the site.
CleanProject ==
    /\ \A s \in Elems(store) :
          /\ PoolsOf(s.site, "ipv4") # {}
          /\ Wanted(s, "ipv4") # 0
          /\ s.prefixV6 = 0
          /\ ~s.cidrV6.valid
          /\ s.locked =>
                /\ s.cidr.valid /\ s.cidr.fam = "ipv4"
                /\ \E q \in PoolsOf(s.site, "ipv4") : Inside(q, PrefixOf(s.cidr))
                /\ \A r \in Elems(siteRows) : r.id = s.site =>
                      \A u \in Elems(r.reserved) :
                          u.valid => Disjoint(PrefixOf(u), PrefixOf(s.cidr))
    /\ \A i, j \in 1..Len(store) :
          i # j =>
             /\ ~(/\ store[i].site = store[j].site /\ store[i].vrf = store[j].vrf
                  /\ store[i].vlan = store[j].vlan)
             /\ (store[i].locked /\ store[j].locked) =>
                   Disjoint(PrefixOf(store[i].cidr), PrefixOf(store[j].cidr))

\* C9: on such a project, the analyzer run under the default rules after a
\* successful POST /allocate reports no conflict and status OK for every
\* segment.
C9_AllocateThenClean ==
    (resp.op = "analysis" /\ allocated /\ resp.rules = defaultProjectRules /\ CleanProject) =>
        /\ resp.conflicts = <<>>
        /\ \A id \in DOMAIN resp.statuses :
              resp.statuses[id].level = statusOK /\ resp.statuses[id].details = <<>>

\* C10: a what-if run executes no write: the store after it is the store
\* before it, and the segment list the caller passed is the list it read.
C10_WhatIfReadOnly ==
    resp.op = "whatif" =>
        /\ store = resp.before
        /\ resp.result.existing = resp.listed
        /\ resp.listed = listSegments(store)
\* A what-if run whose plan moves an existing segment.
C10_Witness ==
    /\ resp.op = "whatif"
    /\ resp.outcome = "ok"
    /\ Len(resp.result.Changes) > 0
\* A list in the order p of its positions.
Permuted(seq, p) == [i \in 1..Len(seq) |-> seq[p[i]]]

\* C11: the assignment maps of a planning run are those of every run on the
\* same snapshot with the segment list and the pool list in any other order
\* (and under any iteration order of the sites).
C11_OrderIndependent ==
    (resp.op = "whatif" /\ resp.outcome = "ok") =>
        LET segs == resp.result.planSegments
            pools == listPools(poolRows)
        IN \A sp \in MapOrders(1..Len(segs)), pp \in MapOrders(1..Len(pools)) :
             \A o \in MapOrders({segs[i].site : i \in 1..Len(segs)}) :
                LET again == planAllocations(Permuted(segs, sp), Permuted(pools, pp),
                                             listSites(siteRows), rules, o)
                IN ~again.hang =>
                      /\ again.planV4 = resp.result.planV4
                      /\ again.planV6 = resp.result.planV6
\* C12: in a what-if result an existing segment whose planned CIDR text of
\* either family differs from its current one is listed exactly once: in
\* Unallocated (status unallocated) when its new IPv4 CIDR is empty and its
\* old one was not, else in Changes (status moved); a segment with both
\* texts unchanged is in neither list.
C12_DiffReported ==
    (resp.op = "whatif" /\ resp.outcome = "ok") =>
        \A i \in 1..Len(resp.listed) :
            LET s == resp.listed[i]
                r == resp.result
                old4 == cidrString(s.cidr)
                new4 == PlanText(r.planV4, s.id)
                old6 == cidrString(s.cidrV6)
                new6 == PlanText(r.planV6, s.id)
                moved == {k \in 1..Len(r.Changes) : r.Changes[k].seg = s.id}
                unalloc == {k \in 1..Len(r.Unallocated) : r.Unallocated[k].seg = s.id}
            IN /\ \A k \in moved : r.Changes[k].status = "moved"
               /\ \A k \in unalloc : r.Unallocated[k].status = "unallocated"
               /\ IF old4 = new4 /\ old6 = new6
                  THEN moved = {} /\ unalloc = {}
                  ELSE IF ~new4.valid /\ old4.valid
                  THEN Cardinality(unalloc) = 1 /\ moved = {}
                  ELSE Cardinality(moved) = 1 /\ unalloc = {}
\* C13: the what-if move scenario.  One pool of four blocks, one stored
\* unlocked segment that requests one block and holds the first, and a
\* candidate in its site and VRF that requests one block: the result
\* proposes the first block for the candidate and Changes has exactly one
\* entry, the stored segment moved to the second block.
C13_MoveScenario ==
    (/\ resp.op = "whatif"
     /\ poolRows = Layout("one")
     /\ resp.listed = <<SegRowAt(1, 1, 1, 1, "users")>>
     /\ resp.result.Segment.site = 1
     /\ resp.result.Segment.vrf = 1
     /\ resp.result.Segment.prefix = 3) =>
        /\ resp.result.ProposedCIDR = PrefixString(Blk4(0, 3))
        /\ Len(resp.result.Changes) = 1
        /\ resp.result.Changes[1].seg = 1
        /\ resp.result.Changes[1].status = "moved"
        /\ resp.result.Changes[1].new = PrefixString(Blk4(1, 3))
\* C14: in an analysis, two segments of one site and VRF whose CIDRs of a
\* family both parse and overlap have exactly one OVERLAP (OVERLAP_V6)
\* conflict between them, at Conflict level, and both have status Conflict;
\* any other two segments have none.
C14_Overlaps ==
    resp.op = "conflicts" =>
        \A i, j \in 1..Len(resp.listed), fam \in Families :
            i < j =>
                LET a == resp.listed[i]
                    b == resp.listed[j]
                    ta == TextOf(a, fam)
                    tb == TextOf(b, fam)
                    overlapping ==
                        /\ a.site = b.site /\ a.vrf = b.vrf
                        /\ ta.valid /\ ta.fam \in Families
                        /\ tb.valid /\ tb.fam \in Families
                        /\ ~Disjoint(PrefixOf(ta), PrefixOf(tb))
                    hits == {k \in 1..Len(resp.conflicts) :
                                /\ resp.conflicts[k].kind =
                                      (IF fam = "ipv6" THEN "OVERLAP_V6" ELSE "OVERLAP")
                                /\ {resp.conflicts[k].seg, resp.conflicts[k].other}
                                      = {a.id, b.id}}
                IN IF overlapping
                   THEN /\ Cardinality(hits) = 1
                        /\ \A k \in hits : resp.conflicts[k].level = LevelConflict
                        /\ resp.statuses[a.id].level = statusConflict
                        /\ resp.statuses[b.id].level = statusConflict
                   ELSE hits = {}
\* An analysis that reports three IPv4 overlaps among three segments and an
\* IPv6 overlap.
C14_Witness ==
    /\ resp.op = "conflicts"
    /\ Cardinality({k \in 1..Len(resp.conflicts) : resp.conflicts[k].kind = "OVERLAP"}) = 3
    /\ \E k \in 1..Len(resp.conflicts) : resp.conflicts[k].kind = "OVERLAP_V6"
\* The fields the VLAN scope of the rules compares.
Scoped(s, scope) ==
    IF scope = VlanScopeGlobal THEN <<s.vlan>>
    ELSE IF scope = VlanScopeSite THEN <<s.site, s.vlan>>
    ELSE <<s.site, s.vrf, s.vlan>>

\* C15: in an analysis, two segments collide when they agree on the scoped
\* fields (site, VRF and VLAN; site and VLAN; VLAN).  Every segment that
\* collides with another has status Conflict, n segments that collide with
\* each other yield n - 1 VLAN_DUP conflicts, and every VLAN_DUP names two
\* segments that collide.
C15_VlanDup ==
    resp.op = "conflicts" =>
        LET segs == resp.listed
            scope == resp.rules.VLANScope
            dups == {k \in 1..Len(resp.conflicts) : resp.conflicts[k].kind = "VLAN_DUP"}
            byID(id) == CHOOSE s \in Elems(segs) : s.id = id
        IN /\ \A i, j \in 1..Len(segs) :
                 (i # j /\ Scoped(segs[i], scope) = Scoped(segs[j], scope)) =>
                     resp.statuses[segs[i].id].level = statusConflict
           /\ Cardinality(dups)
                 = Len(segs) - Cardinality({Scoped(segs[i], scope) : i \in 1..Len(segs)})
           /\ \A k \in dups :
                 /\ resp.conflicts[k].level = LevelConflict
                 /\ resp.conflicts[k].seg # resp.conflicts[k].other
                 /\ Scoped(byID(resp.conflicts[k].seg), scope)
                       = Scoped(byID(resp.conflicts[k].other), scope)
\* C16: in an analysis, the two flags of the rules choose the level and not
\* the detection.  A segment whose parsed CIDR of a family lies in none of
\* the pools its site has for the family has exactly one OUT_OF_POOL
\* (OUT_OF_POOL_V6), at Conflict when RequireInPool and at Warning when not;
\* one whose parsed CIDR overlaps a reserved range of its site has exactly one
\* RESERVED_OVERLAP (_V6), at Conflict unless AllowReservedOverlap and at
\* Warning with it; the status of the segment is not below that level; no
\* other segment has such a conflict.
C16_Severity ==
    resp.op = "conflicts" =>
        \A s \in Elems(resp.listed), fam \in Families :
            LET t == TextOf(s, fam)
                parsed == t.valid /\ t.fam \in Families
                pools == PoolsOf(s.site, fam)
                reserved == {PrefixOf(u) :
                                u \in {x \in UNION {Elems(r.reserved) :
                                                       r \in {y \in Elems(siteRows) : y.id = s.site}} :
                                          x.valid /\ x.fam = fam}}
                of(kind) == {k \in 1..Len(resp.conflicts) :
                                /\ resp.conflicts[k].kind = kind
                                /\ resp.conflicts[k].seg = s.id}
                outs == of(IF fam = "ipv6" THEN "OUT_OF_POOL_V6" ELSE "OUT_OF_POOL")
                hits == of(IF fam = "ipv6" THEN "RESERVED_OVERLAP_V6" ELSE "RESERVED_OVERLAP")
                emitted(set, strict) ==
                    /\ Cardinality(set) = 1
                    /\ \A k \in set :
                          resp.conflicts[k].level =
                              (IF strict THEN LevelConflict ELSE LevelWarning)
                    /\ resp.statuses[s.id].level >=
                          (IF strict THEN statusConflict ELSE statusWarning)
            IN /\ IF parsed /\ pools # {} /\ \A q \in pools : ~Inside(q, PrefixOf(t))
                  THEN emitted(outs, resp.rules.RequireInPool)
                  ELSE outs = {}
               /\ IF parsed /\ \E u \in reserved : ~Disjoint(u, PrefixOf(t))
                  THEN emitted(hits, ~resp.rules.AllowReservedOverlap)
                  ELSE hits = {}
\* An analysis under rules that do not require pool membership and forbid
\* reserved overlaps, with an OUT_OF_POOL at Warning and a RESERVED_OVERLAP at
\* Conflict.
C16_Witness ==
    /\ resp.op = "conflicts"
    /\ ~resp.rules.RequireInPool
    /\ ~resp.rules.AllowReservedOverlap
    /\ \E k \in 1..Len(resp.conflicts) :
          resp.conflicts[k].kind = "OUT_OF_POOL" /\ resp.conflicts[k].level = LevelWarning
    /\ \E k \in 1..Len(resp.conflicts) :
          /\ resp.conflicts[k].kind = "RESERVED_OVERLAP"
          /\ resp.conflicts[k].level = LevelConflict
\* The phase of a conflict kind: 0 for the allocator's, 1 for the checks of one
\* segment, 2 for the overlaps, 3 for the VLAN duplicates, 4 for the hints.
AllocatorKinds == {"ALLOCATE_FAIL", "POOL_MISSING", "SIZE_MISSING", "LOCKED_NO_CIDR"}
PhaseKinds ==
    <<{"CIDR_PARSE", "CIDR6_PARSE", "OUT_OF_POOL", "OUT_OF_POOL_V6",
       "RESERVED_OVERLAP", "RESERVED_OVERLAP_V6"},
      {"OVERLAP", "OVERLAP_V6"},
      {"VLAN_DUP"},
      {"POOL_FRAGMENTATION", "POOL_FRAGMENTATION_V6", "POOL_GAP", "POOL_GAP_V6",
       "OVERSIZED", "OVERSIZED_V6"}>>
PhaseOrdered(conflicts, planned) ==
    \A i, j \in 1..Len(conflicts) :
        i < j =>
            /\ planned /\ conflicts[j].kind \in AllocatorKinds
                  => conflicts[i].kind \in AllocatorKinds
            /\ \A a, b \in 1..Len(PhaseKinds) :
                  conflicts[i].kind \in PhaseKinds[a] /\ conflicts[j].kind \in PhaseKinds[b]
                      => a <= b

\* C17: the conflict list of one call is ordered by phase.  In a what-if
\* result no analyzer conflict comes before an allocator conflict
\* (ALLOCATE_FAIL, POOL_MISSING, SIZE_MISSING, LOCKED_NO_CIDR); in a what-if
\* result and on the conflicts page no overlap comes before a check of one
\* segment, no VLAN_DUP before an overlap or a check of one segment, and no
\* efficiency hint before any of them.
C17_PhaseOrder ==
    /\ resp.op = "whatif" => PhaseOrdered(resp.result.Conflicts, TRUE)
    /\ resp.op = "conflicts" => PhaseOrdered(resp.conflicts, FALSE)
\* A what-if result whose list holds an allocator conflict, a check of one
\* segment, an overlap, a VLAN duplicate and a hint.
C17_Witness ==
    /\ resp.op = "whatif"
    /\ \E k \in 1..Len(resp.result.Conflicts) :
          resp.result.Conflicts[k].kind \in AllocatorKinds
    /\ \A a \in 1..Len(PhaseKinds) :
          \E k \in 1..Len(resp.result.Conflicts) :
              resp.result.Conflicts[k].kind \in PhaseKinds[a]
\* C18: the conflicts page shows what every run of analyzeAll on the same
\* segments, pools, sites and rules returns: the same status map and the same
\* conflict list in the same order, whatever the iteration orders of the
\* run's maps.
C18_AnalyzeDeterministic ==
    resp.op = "conflicts" =>
        \A o \in AnalyzeOrders(resp.listed, listPools(poolRows)) :
            LET again == analyzeAll(resp.listed, listPools(poolRows),
                                    listSites(siteRows), resp.rules, o)
            IN /\ again.statuses = resp.statuses
               /\ again.conflicts = resp.conflicts
\* The pools the tiered strategy may use for a segment in a family: the
\* site's pools of the segment's tier; when there is none, all of the site's
\* pools under PoolTierFallback and no pool without it.
TierPools(s, fam, fallback) ==
    LET items == {q \in Elems(poolRows) :
                     q.site = s.site /\ q.family = fam /\ q.cidr.fam = fam}
        same == {q \in items : q.tier = s.tier}
    IN IF same # {} THEN same ELSE IF fallback THEN items ELSE {}
TierFailed(s, fam) ==
    \E k \in 1..Len(resp.result.Conflicts) :
        /\ resp.result.Conflicts[k].kind = "ALLOCATE_FAIL"
        /\ resp.result.Conflicts[k].seg = s.id
        /\ resp.result.Conflicts[k].fam = fam

C20_MinimalBlock ==
    resp.op = "desired" =>
        LET h == resp.seg.hosts
            L == resp.want
        IN /\ resp.seg.prefix # 0 => L = resp.seg.prefix
           /\ (resp.seg.prefix = 0 /\ h \in 1..Pow2(V4Bits - 2)) =>
                 /\ L \in 1..(V4Bits - 1)
                 /\ 2 ^ (V4Bits - L) >= h + 3
                 /\ 2 ^ (V4Bits - (L + 1)) < h + 3
                 /\ \A b \in 2..(V4Bits - 2) :
                       /\ h = 2 ^ b - 3 => L = V4Bits - b
                       /\ h = 2 ^ b - 2 => L = V4Bits - b - 1
\* The derivation for the largest host count of the range, one past a power
\* of two less three: the length is 1.
C20_Witness ==
    /\ resp.op = "desired"
    /\ resp.seg.prefix = 0
    /\ resp.seg.hosts = Pow2(V4Bits - 2)
    /\ resp.want = 1
\* The addresses of a prefix, and those among them that a segment CIDR of
\* the family at the site, or a reserved range of the site, covers.
AddrsOf(p) == Lo(p)..Hi(p)
CoveredAddrs(site, fam, segs) ==
    UNION ({AddrsOf(PrefixOf(TextOf(s, fam))) :
               s \in {x \in Elems(segs) : x.site = site /\ ParseOK(TextOf(x, fam))
                                          /\ TextOf(x, fam).fam = fam}}
           \cup {AddrsOf(PrefixOf(u)) :
                    u \in {x \in UNION {Elems(r.reserved) :
                                           r \in {y \in Elems(siteRows) : y.id = site}} :
                              ParseOK(x) /\ x.fam = fam}})

\* C21: every pool of the capacity report has as its used count the number
\* of the pool's addresses that an assigned segment CIDR of the pool's site
\* (locked or not) or a reserved range of the site covers, each counted once;
\* so 0 <= used <= total, free >= 0 and used + free = total.
C21_CapacityExact ==
    resp.op = "capacity" =>
        \A k \in 1..Len(resp.report.Pools) :
            LET row == resp.report.Pools[k]
                site == CHOOSE q \in Elems(poolRows) : q.siteName = row.site
            IN /\ row.used = Cardinality(AddrsOf(row.cidr)
                                 \cap CoveredAddrs(site.site, row.family, resp.listed))
               /\ 0 <= row.used /\ row.used <= row.total
               /\ row.free >= 0
               /\ row.used + row.free = row.total
\* What the hints of an analysis report for an IPv4 pool: the fragmentation
\* score and the number of free addresses of its POOL_FRAGMENTATION hint, 0
\* when the pool has none.
FragOf(hints, pool, field) ==
    LET mine == {k \in 1..Len(hints) :
                    /\ hints[k].kind = "POOL_FRAGMENTATION"
                    /\ hints[k].detail[1] = pool.cidr.addr
                    /\ hints[k].detail[2] = pool.cidr.bits}
    IN IF mine = {} THEN 0 ELSE hints[CHOOSE k \in mine : TRUE].detail[field]
\* The hints of the pool's site had segment s no IPv4 CIDR.
HintsWithout(s, pool) ==
    SiteHints([i \in 1..Len(resp.listed) |->
                  IF resp.listed[i].id = s.id THEN [resp.listed[i] EXCEPT !.cidr = NullCIDR]
                  ELSE resp.listed[i]],
              listPools(poolRows), listSites(siteRows), pool.site, FALSE)
\* The pairs (pool, segment) of an analysis where the segment's IPv4 CIDR
\* lies inside the IPv4 pool of its site.
PoolSegs ==
    {<<q, s>> \in Elems(poolRows) \X Elems(resp.listed) :
        /\ q.family = "ipv4" /\ q.cidr.fam = "ipv4"
        /\ s.site = q.site
        /\ ParseOK(s.cidr) /\ s.cidr.fam = "ipv4"
        /\ Inside(q.cidr, PrefixOf(s.cidr))}

Containing(s, fam) ==
    {q \in Elems(poolRows) :
        /\ q.site = s.site /\ q.cidr.fam = fam
        /\ ParseOK(TextOf(s, fam)) /\ TextOf(s, fam).fam = fam
        /\ Inside(q.cidr, PrefixOf(TextOf(s, fam)))}
LabelOf(view, fam) == IF fam = "ipv6" THEN view.PoolLabelV6 ELSE view.PoolLabel
Labelled(view, q) ==
    /\ view.set
    /\ view.cidr = q.cidr /\ view.tier = q.tier /\ view.priority = q.priority

\* The two orders on the pools of a site: by size, priority and CIDR text,
\* and by priority, size and CIDR text.
SmallestFirst(q, o) ==
    IF q.cidr.bits # o.cidr.bits THEN q.cidr.bits > o.cidr.bits
    ELSE IF q.priority # o.priority THEN q.priority < o.priority
    ELSE StrLess(PrefixChars(q.cidr), PrefixChars(o.cidr))
PriorityFirst(q, o) ==
    IF q.priority # o.priority THEN q.priority < o.priority
    ELSE IF q.cidr.bits # o.cidr.bits THEN q.cidr.bits > o.cidr.bits
    ELSE StrLess(PrefixChars(q.cidr), PrefixChars(o.cidr))

\* C23: the pool label of a view is that of the smallest pool of the
\* family at the segment's site that contains the CIDR, among the equally
\* small the one of lower priority, then of smaller CIDR text; it is empty
\* exactly when no such pool contains the CIDR.
C23_SmallestPool ==
    resp.op = "views" =>
        \A k \in 1..Len(resp.views), fam \in Families :
            LET s == resp.listed[k]
                label == LabelOf(resp.views[k], fam)
            IN /\ label.set <=> Containing(s, fam) # {}
               /\ \A q \in Containing(s, fam) :
                     (\A o \in Containing(s, fam) \ {q} : SmallestFirst(q, o))
                         => Labelled(label, q)
\* C23 as amended: the label is that of the containing pool of lowest
\* priority, among those of equal priority the smallest (longest prefix),
\* then the one of smaller CIDR text; it is empty exactly when no pool of the
\* family at the site contains the CIDR.
C23_PriorityFirst ==
    resp.op = "views" =>
        \A k \in 1..Len(resp.views), fam \in Families :
            LET s == resp.listed[k]
                label == LabelOf(resp.views[k], fam)
            IN /\ label.set <=> Containing(s, fam) # {}
               /\ \A q \in Containing(s, fam) :
                     (\A o \in Containing(s, fam) \ {q} : PriorityFirst(q, o))
                         => Labelled(label, q)
\* A view labelled with a pool that contains the CIDR while a smaller pool of
\* higher priority number contains it too.
C23_Witness ==
    /\ resp.op = "views"
    /\ \E k \in 1..Len(resp.views) :
          \E q, o \in Containing(resp.listed[k], "ipv4") :
              /\ Labelled(resp.views[k].PoolLabel, q)
              /\ o.cidr.bits > q.cidr.bits
              /\ o.priority > q.priority
\* The aligned blocks of a length inside a pool that overlap none of a set of
\* prefixes.
FreeBlocks(pool, want, taken) ==
    {b \in {Pfx(pool.fam, a, want) : a \in Lo(pool)..Hi(pool)} :
        /\ want >= pool.bits /\ want <= Width(pool.fam)
        /\ Lo(b) = b.addr
        /\ Inside(pool, b)
        /\ \A u \in taken : Disjoint(u, b)}
\* The candidates of a site and family in a what-if plan, in the order of
\* their desired length, equal lengths in list order; the pools of the site
\* and family in catalog order.
PlanCandidates(site, fam) ==
    LET own == SelectSeq(resp.result.planSegments, LAMBDA x :
                   x.site = site /\ ~x.locked /\ Wanted(x, fam) # 0)
    IN SortStable(own, LAMBDA a, b : Wanted(a, fam) < Wanted(b, fam))
PlanCatalog(site, fam) ==
    LET own == SelectSeq(listPools(poolRows), LAMBDA q :
                   q.site = site /\ q.family = fam /\ q.cidr.fam = fam)
    IN SortStable(own, LAMBDA a, b :
           IF a.priority # b.priority THEN a.priority < b.priority
           ELSE IF a.tier # b.tier THEN a.tier < b.tier
           ELSE StrLess(PrefixChars(a.cidr), PrefixChars(b.cidr)))
\* What is taken when the k-th candidate is placed: the initial used set and
\* the blocks of the candidates before it.
TakenBefore(site, fam, k) ==
    UsedSet(site, fam)
    \cup {OutMap(fam)[PlanCandidates(site, fam)[j].id] :
             j \in {x \in 1..(k - 1) : PlanCandidates(site, fam)[x].id \in DOMAIN OutMap(fam)}}

\* C24: in a what-if plan under the spillover strategy each candidate, taken
\* in ascending desired length (equal lengths in list order), lies in the
\* first pool of the catalog (priority, tier, CIDR text) that has a free
\* aligned block of its length given the used set and the candidates placed
\* before it; it is left out, with an ALLOCATE_FAIL, only when no pool of the
\* site has such a block.
C24_FirstFit ==
    (resp.op = "whatif" /\ resp.outcome = "ok" /\ rules.PoolStrategy = PoolStrategySpillover) =>
        \A site \in SiteIDs, fam \in Families :
            LET cands == PlanCandidates(site, fam)
                pools == PlanCatalog(site, fam)
            IN \A k \in 1..Len(cands) :
                  LET want == Wanted(cands[k], fam)
                      free(j) == FreeBlocks(pools[j].cidr, want, TakenBefore(site, fam, k))
                  IN IF cands[k].id \in DOMAIN OutMap(fam)
                     THEN \E j \in 1..Len(pools) :
                             /\ Inside(pools[j].cidr, OutMap(fam)[cands[k].id])
                             /\ \A i \in 1..(j - 1) : free(i) = {}
                     ELSE \A j \in 1..Len(pools) : free(j) = {}

\* The segments of a site as an allocator run was given them, the run of the
\* strict allocator on a site and family of the store before POST /allocate,
\* and the planning run of a site and family on a list of segments.
SiteSegs(site) == SelectSeq(OutSegs, LAMBDA s : s.site = site)
SiteRowOf(site) == CHOOSE r \in Elems(siteRows) : r.id = site
StrictRunOn(rows, site, fam) ==
    RunStrategy(poolItemsForFamily(poolsBySite(poolRows, site), fam),
                Candidates(segmentsBySite(rows, site), fam),
                InitialUsed(segmentsBySite(rows, site),
                            ReservedOf(SiteRowOf(site), fam), fam),
                rules, fam, TRUE)
StrictRun(site, fam) == StrictRunOn(resp.before, site, fam)
PlanAgain(site, fam, segs) ==
    planAllocateFamily(segs, SelectSeq(listPools(poolRows), LAMBDA p : p.site = site),
                       buildReservedIndex(listSites(siteRows), site, fam), rules, fam)
\* The number of ALLOCATE_FAIL conflicts of a what-if result for a segment
\* and family; the first candidate of a list that a map leaves out.
FailCount(id, fam) ==
    Cardinality({i \in 1..Len(resp.result.Conflicts) :
                    /\ resp.result.Conflicts[i].kind = "ALLOCATE_FAIL"
                    /\ resp.result.Conflicts[i].seg = id
                    /\ resp.result.Conflicts[i].fam = fam})
FirstOut(cands, alloc) ==
    cands[CHOOSE k \in 1..Len(cands) :
              /\ cands[k].id \notin DOMAIN alloc
              /\ \A j \in 1..(k - 1) : cands[j].id \in DOMAIN alloc]
SiteUnwritten(site) ==
    \A i \in 1..Len(store) : store[i].site = site => store[i] = resp.before[i]

\* C25: a strict run that cannot place a candidate reports one ALLOCATE_FAIL,
\* for the first candidate it left out, and POST /allocate then returns an
\* error for the site with none of the site's rows written; a planning run
\* (on a site that has pools of the family) leaves each candidate either in
\* the map without an ALLOCATE_FAIL or out of it with exactly one, and gives
\* the other candidates what it gives them when the failed one is not in the
\* list.
C25_StrictPlanning ==
    /\ resp.op = "allocate" =>
          \A fam \in Families :
            \A site \in (IF fam = "ipv4" THEN resp.ranV4 ELSE resp.ranV6) :
              \E r \in {StrictRun(site, fam)} :
                 (~r.hang /\ Len(r.conflicts) > 0) =>
                     /\ Len(r.conflicts) = 1
                     /\ r.conflicts[1] = Conflict("ALLOCATE_FAIL", LevelWarning,
                            FirstOut(Candidates(segmentsBySite(resp.before, site), fam),
                                     r.alloc).id, 0, fam)
                     /\ resp.outcome = "error"
                     /\ resp.failed = site
                     /\ SiteUnwritten(site)
    /\ (resp.op = "whatif" /\ resp.outcome = "ok") =>
          \A site \in SiteIDs, fam \in Families :
             PoolsOf(site, fam) # {} =>
                \A c \in Elems(PlanCandidates(site, fam)) :
                   /\ FailCount(c.id, fam) = IF c.id \in DOMAIN OutMap(fam) THEN 0 ELSE 1
                   /\ c.id \notin DOMAIN OutMap(fam) =>
                         \E again \in {PlanAgain(site, fam,
                                          SelectSeq(SiteSegs(site), LAMBDA x : x # c)).alloc} :
                            \A o \in Elems(PlanCandidates(site, fam)) \ {c} :
                               /\ o.id \in DOMAIN again <=> o.id \in DOMAIN OutMap(fam)
                               /\ o.id \in DOMAIN again => again[o.id] = OutMap(fam)[o.id]
\* A planning run in which a candidate failed and a candidate after it was
\* placed.
C25_Witness ==
    /\ resp.op = "whatif" /\ resp.outcome = "ok"
    /\ \E site \in SiteIDs, fam \in Families :
          \E j, k \in 1..Len(PlanCandidates(site, fam)) :
             /\ j < k
             /\ FailCount(PlanCandidates(site, fam)[j].id, fam) = 1
             /\ PlanCandidates(site, fam)[k].id \in DOMAIN OutMap(fam)

\* The block of lowest address of a set; what exact first fit returns.
Lowest(blocks) == CHOOSE b \in blocks : \A o \in blocks : b.addr <= o.addr
ExactFit(pool, want, used, out) ==
    /\ ~out.hang
    /\ out.ok <=> FreeBlocks(pool, want, Elems(used)) # {}
    /\ out.ok => out.p = Lowest(FreeBlocks(pool, want, Elems(used)))

\* C26: allocateInPool returns the lowest aligned block of the requested
\* length that lies inside the pool and overlaps no used prefix, and fails
\* only when there is none; the IPv4 scan and the IPv6 sweep give the same
\* answer on the same blocks, pools at the top of the address space included.
C26_ExactFirstFit ==
    resp.op = "place" =>
        /\ ExactFit(resp.pool4, resp.want, resp.used4, resp.out4)
        /\ ExactFit(resp.pool6, resp.want, resp.used6, resp.out6)
        /\ resp.out4.ok = resp.out6.ok
        /\ resp.out4.ok => resp.out4.p.addr = resp.out6.p.addr

\* A list of segments with the CIDR fields of its unlocked segments replaced:
\* cleared, or set to the k-th block of an eighth of the space in both
\* families.
Moved(segs, k) ==
    [i \in 1..Len(segs) |->
        IF segs[i].locked THEN segs[i]
        ELSE IF k < 0 THEN [segs[i] EXCEPT !.cidr = NullCIDR, !.cidrV6 = NullCIDR]
        ELSE [segs[i] EXCEPT !.cidr = PrefixString(Blk4(k, 3)),
                             !.cidrV6 = PrefixString(Blk6(k, 3))]]
Moves == {-1, 0, 1, 7}
MapOf(m, ids) == [x \in (DOMAIN m) \cap ids |-> m[x]]
SiteIDsOf(segs, site) == {segs[i].id : i \in {j \in 1..Len(segs) : segs[j].site = site}}
\* The ALLOCATE_FAIL, SIZE_MISSING and LOCKED_NO_CIDR conflicts of a list.
SegmentConflicts(conflicts) ==
    {c \in Elems(conflicts) : c.kind \in {"ALLOCATE_FAIL", "SIZE_MISSING", "LOCKED_NO_CIDR"}}
\* The plan of a list of segments under the project's pools, sites and rules.
PlanOf(segs) ==
    planAllocations(segs, listPools(poolRows), listSites(siteRows), rules,
        CHOOSE o \in MapOrders({segs[i].site : i \in 1..Len(segs)}) : TRUE)

\* C27: the allocator's maps do not depend on the CIDRs of unlocked
\* segments: a strict run and a plan on the segments with those CIDRs cleared
\* or replaced return the maps (and the conflicts about segments) they
\* returned on the segments as they were.
C27_UnlockedIgnored ==
    /\ resp.op = "allocate" =>
          \A k \in Moves, fam \in Families :
            \A site \in (IF fam = "ipv4" THEN resp.ranV4 ELSE resp.ranV6) :
              \E r \in {StrictRunOn(Moved(resp.before, k), site, fam)} :
                 /\ r = StrictRun(site, fam)
                 /\ r.hang => resp.outcome = "hang"
                 /\ site \in Elems(resp.done) \cup {resp.failed} =>
                       r.alloc = MapOf(OutMap(fam), SiteIDsOf(resp.before, site))
    /\ (resp.op = "whatif" /\ resp.outcome = "ok") =>
          \A k \in Moves :
             \E pl \in {PlanOf(Moved(resp.result.planSegments, k))} :
                /\ ~pl.hang
                /\ pl.planV4 = resp.result.planV4 /\ pl.planV6 = resp.result.planV6
                /\ pl.allocV4 = resp.result.allocV4 /\ pl.allocV6 = resp.result.allocV6
                /\ SegmentConflicts(pl.conflicts) \subseteq Elems(resp.result.Conflicts)
                /\ \A c \in Elems(resp.result.Conflicts) :
                      c.kind = "ALLOCATE_FAIL" => c \in Elems(pl.conflicts)
\* A plan that places a segment over the CIDR an unlocked segment holds.
C27_Witness ==
    /\ resp.op = "whatif" /\ resp.outcome = "ok"
    /\ \E s \in Elems(resp.result.planSegments), fam \in Families :
          /\ ~s.locked /\ ParseOK(TextOf(s, fam))
          /\ \E id \in DOMAIN OutMap(fam) \ {s.id} :
                ~Disjoint(OutMap(fam)[id], PrefixOf(TextOf(s, fam)))

\* The used ranges of a row of the capacity report are in order, apart and
\* not touching, inside the pool, and cover what the inputs cover of it.
RangesExact(row, covered) ==
    /\ \A i \in 1..(Len(row.ranges) - 1) : row.ranges[i].end + 1 < row.ranges[i + 1].start
    /\ \A i \in 1..Len(row.ranges) :
          /\ row.ranges[i].start <= row.ranges[i].end
          /\ Lo(row.cidr) <= row.ranges[i].start
          /\ row.ranges[i].end <= Hi(row.cidr)
    /\ UNION {row.ranges[i].start..row.ranges[i].end : i \in 1..Len(row.ranges)}
          = AddrsOf(row.cidr) \cap covered

\* C28: the used ranges that buildUsedRanges and buildUsedRangesBig return
\* for a pool are sorted by start, pairwise disjoint and non-adjacent, inside
\* the pool, and their union is the union of the input prefixes intersected
\* with the pool, pools and prefixes that end at the highest address
\* included.
C28_UsedRanges ==
    resp.op = "capacity" =>
        \A k \in 1..Len(resp.report.Pools) :
            LET row == resp.report.Pools[k]
                site == CHOOSE q \in Elems(poolRows) : q.siteName = row.site
            IN RangesExact(row, CoveredAddrs(site.site, row.family, resp.listed))

\* The blocks of a free range tile it: each starts where the one before
\* ended (the first at the start of the range), is aligned to its size, ends
\* inside the range, and no shorter prefix length is aligned there and fits.
Tiles(g, bs) ==
    /\ Len(bs) > 0
    /\ bs[1].addr = g.start
    /\ Hi(bs[Len(bs)]) = g.end
    /\ \A k \in 1..Len(bs) :
          /\ bs[k].fam = "ipv4"
          /\ Lo(bs[k]) = bs[k].addr
          /\ Hi(bs[k]) <= g.end
          /\ k > 1 => bs[k].addr = Hi(bs[k - 1]) + 1
          /\ \A q \in 0..(bs[k].bits - 1) :
                \/ bs[k].addr % Pow2(V4Bits - q) # 0
                \/ bs[k].addr + Pow2(V4Bits - q) - 1 > g.end
\* The scaled example: a pool of the lowest 16 addresses with segments of one
\* address at 0, 4 and 8.
GapExample ==
    /\ resp.pool = Low("ipv4", 0, 4)
    /\ {PrefixOf(s.cidr) : s \in {x \in Elems(resp.listed) : ParseOK(x.cidr)}}
          = {Low("ipv4", 0, 0), Low("ipv4", 4, 0), Low("ipv4", 8, 0)}
    /\ siteRows[1].reserved = <<>>

\* C29: the free ranges of a pool are the complement of what is used inside
\* it, in order, and rangeToPrefixes tiles each with aligned disjoint blocks,
\* each the largest aligned block at its start that fits; in the example the
\* first three blocks are the single address after the first segment, the
\* pair after that, and the single address after the second segment.
C29_AlignedCover ==
    resp.op = "gaps" =>
        /\ \A i \in 1..Len(resp.free) :
              /\ resp.free[i].start <= resp.free[i].end
              /\ i > 1 => resp.free[i - 1].end + 1 < resp.free[i].start
              /\ Tiles(resp.free[i], resp.blocks[i])
        /\ UNION {resp.free[i].start..resp.free[i].end : i \in 1..Len(resp.free)}
              = AddrsOf(resp.pool) \ CoveredAddrs(1, "ipv4", resp.listed)
        /\ GapExample =>
              SubSeq(resp.blocks[1] \o resp.blocks[2], 1, 3)
                  = <<Low("ipv4", 1, 0), Low("ipv4", 2, 1), Low("ipv4", 5, 0)>>

\* C30: on pools of a site and family that do not overlap, the contiguous
\* and the spillover strategy return in planning mode the same map and the
\* same sequence of ALLOCATE_FAIL conflicts for the same candidates, pools
\* and initial used set (and one returns exactly when the other does).
C30_StrategiesAgree ==
    resp.op = "strategies" =>
        \A fam \in Families :
            /\ resp.spill[fam].hang = resp.contig[fam].hang
            /\ ~resp.spill[fam].hang =>
                  /\ resp.spill[fam].alloc = resp.contig[fam].alloc
                  /\ resp.spill[fam].conflicts = resp.contig[fam].conflicts
====
